---- MODULE Spec2Model ----
(***************************************************************************)
(* Detection-and-enrichment pipeline of gem-scanner:                       *)
(*   - RpcRateLimiter        (src/src/services/rateLimiter.ts)             *)
(*   - SolanaMonitor         (src/src/services/solanaMonitor.ts)           *)
(*   - TokenScanner quarantine (src/src/index.ts)                          *)
(* Each component has its own specification (SpecRL, SpecMon, SpecQ) over  *)
(* the shared clock `now` (milliseconds, Date.now()).                      *)
(***************************************************************************)
EXTENDS Integers, Sequences, FiniteSets, TLC

VARIABLES
    now,                \* Date.now(), ms since construction
    \* ---- RpcRateLimiter fields (rateLimiter.ts:13-20)
    tokens,             \* this.tokens, in 1/1000 of a token
    lastRefill,         \* this.lastRefill
    currentConcurrent,  \* this.currentConcurrent
    isPaused,           \* this.isPaused
    pauseUntil,         \* this.pauseUntil
    \* ---- one execute() call per caller: position, captured `now`, timer
    pc,                 \* position of each execute() call
    entryNow,           \* `const now = Date.now()` captured at waitForToken entry
    wake,               \* deadline of the setTimeout the call is suspended on
    admitCount,         \* history: number of calls admitted so far, up to NumCallers
    \* ---- SolanaMonitor fields (solanaMonitor.ts:79-82)
    processedSignatures,\* this.processedSignatures: [named, others]
    pendingTransactions,\* this.pendingTransactions, in Map insertion order
    processingInterval, \* this.processingInterval: NoTimer or the next firing time
    ticks,              \* the processPendingTransactions() calls in progress
    nextOrd,            \* insertion counter of the Map
    received,           \* history: notifications handled so far
    created,            \* history: PendingTransactions created per signature
    notifiedSinceClear, \* history: notifications per signature since the last clear
    createdSinceClear,  \* history: creations per signature since the last clear
    dropped,            \* history: entries dropped by the latest run of the tick loop
    invoked,            \* history: onNewTokenCallback calls per signature
    failed,             \* history: per signature, whether its transaction was found with meta.err
    backoffCalls,       \* history: rpcRateLimiter.backoff() calls made by getTransaction
    \* ---- TokenScanner fields (index.ts:116-117)
    waitingRoom,        \* this.waitingRoom, in Map insertion order
    queueProcessorInterval, \* next firing time of the quarantine timer
    qTicks,             \* the processQueue() calls awaiting their batch
    nextId,             \* history: identity given to the next admitted entry
    emitted,            \* history: times each entry was handed to validateAndAlert
    lastAdmit,          \* history: time of the most recent admit of each mint
    replaced,           \* history: entries replaced by a later admit of their mint
    overwritten,        \* history: entries replaced by the re-insertion of a deferred entry
    collected,          \* history: entries deleted by the garbage collector
    emittedNow,         \* history: the emissions of the latest tick
    \* ---- SolanaMonitor connection and timers (solanaMonitor.ts:100-163, 621-624)
    ws,                 \* this.ws: none, connecting, open, closing, closed
    reconnectTimer,     \* the close handler's setTimeout(..., 5000) is pending
    reconnectWait,      \* ms left before that timer fires
    startPromise,       \* the promise of the first start(), awaited by TokenScanner.start
    quarantineTimer,    \* TokenScanner.startQueueProcessor() has run
    lifeRoom,           \* waitingRoom.size
    lifeInterval,       \* this.processingInterval: null, running, cleared
    lifePending,        \* pendingTransactions.size
    lifeRun,            \* the processPendingTransactions() call in progress
    stopped,            \* history: stop() has been called
    afterStop,          \* history: what happened after stop()
    \* ---- SolanaMonitor message handler (solanaMonitor.ts:139-214)
    msgSeen,            \* this.processedSignatures
    msgQueued,          \* keys of this.pendingTransactions
    msgLast,            \* the message handled last
    msgOutcome,         \* how its handling ended
    escaped,            \* history: a promise rejection was left unhandled
    \* ---- the path of a mint from decode to scoring
    pipe,               \* per mint: calls in progress at each await, and history counts
    \* ---- the account decoders (unnamed/part_005)
    decOp,              \* the decoder applied last
    decInput,           \* what it was applied to
    decOutput,          \* what it returned
    \* ---- account reads through the rate-limited connection (unnamed/part_005)
    accountFetch,       \* per account read: position of the caller's and of the connection's execute()
    fetchLimiter        \* currentConcurrent and tokens of the limiter they share

rlVars == <<tokens, lastRefill, currentConcurrent, isPaused, pauseUntil,
            pc, entryNow, wake, admitCount>>

monVars == <<processedSignatures, pendingTransactions, processingInterval, ticks,
             nextOrd, received, created, notifiedSinceClear, createdSinceClear, dropped,
             invoked, failed, backoffCalls>>

qVars == <<waitingRoom, queueProcessorInterval, qTicks, nextId, emitted, lastAdmit,
           replaced, overwritten, collected, emittedNow>>

lifeVars == <<ws, reconnectTimer, reconnectWait, startPromise, quarantineTimer, lifeRoom,
             lifeInterval, lifePending, lifeRun, stopped, afterStop>>

\* the variables of the components specified after the quarantine
msgVars == <<msgSeen, msgQueued, msgLast, msgOutcome, escaped>>

pipeVars == <<pipe>>

decVars == <<decOp, decInput, decOutput>>

fetchVars == <<accountFetch, fetchLimiter>>

restVars == <<lifeVars, msgVars, pipeVars, decVars, fetchVars>>

vars == <<now, rlVars, monVars, qVars, restVars>>

Min(a, b) == IF a <= b THEN a ELSE b
Max(a, b) == IF a >= b THEN a ELSE b
SetMin(S) == CHOOSE x \in S : \A y \in S : x <= y

(***************************************************************************)
(*                            RpcRateLimiter                               *)
(***************************************************************************)

\* constructor arguments of the modelled instance (defaults 10 and 5,
\* overridable through RPC_RATE_LIMIT / RPC_MAX_CONCURRENT)
maxRequestsPerSecond == 1
maxConcurrent == 2

BASE_BACKOFF == 2000
JITTER_MAX == 1000
SLOT_POLL == 10

TokenUnit == 1000                       \* one token, in the unit of `tokens`
maxTokens == maxRequestsPerSecond * TokenUnit
refillRate == maxRequestsPerSecond      \* tokens per second = milli-tokens per ms

\* bounds of the exploration
NumCallers == 3
MaxTimeRL == 3200
Callers == 1..NumCallers
\* getJitter(): Math.floor(Math.random() * JITTER_MAX), a value of 0..JITTER_MAX-1
JitterValues == {0, JITTER_MAX - 1}
TimeStepsRL == {500}

\* tokens after `Math.min(maxTokens, tokens + elapsed * refillRate)` with
\* elapsed = (n - lastRefill) / 1000 s
Refilled(n) == Min(maxTokens, tokens + (n - lastRefill) * refillRate)

\* Math.ceil((1 - tokens) / refillRate * 1000), for tokens < 1
CeilWait(tok) == ((TokenUnit - tok) + refillRate - 1) \div refillRate

\* A call in the slot loop polls every SLOT_POLL ms from wake[c] on.  A poll
\* that finds no free slot only re-arms the timer, so the polls represented
\* are those that find a slot; SlotDeadline is the first poll time >= now.
SlotDeadline(c) ==
    IF now <= wake[c] THEN wake[c]
    ELSE wake[c] + SLOT_POLL * (((now - wake[c]) + SLOT_POLL - 1) \div SLOT_POLL)

\* the timers that will run code changing the limiter, with their deadlines
Armed(c) ==
    \/ pc[c] \in {"pauseWait", "tokenWait"}
    \/ pc[c] = "slotWait" /\ currentConcurrent < maxConcurrent
Deadline(c) == IF pc[c] = "slotWait" THEN SlotDeadline(c) ELSE wake[c]
Due(c) == Armed(c) /\ Deadline(c) <= now

\* waitForToken from the `while (currentConcurrent >= maxConcurrent)` test on
\* (lines 61-88), run by caller c whose captured timestamp is n, getJitter()
\* returning one of jitters
SlotCheckAndRefillWith(c, n, jitters) ==
    IF currentConcurrent >= maxConcurrent
    THEN /\ pc' = [pc EXCEPT ![c] = "slotWait"]
         /\ wake' = [wake EXCEPT ![c] = now + SLOT_POLL]
         /\ UNCHANGED <<restVars, tokens, lastRefill, currentConcurrent, admitCount>>
    ELSE /\ lastRefill' = n
         /\ IF Refilled(n) >= TokenUnit
            THEN /\ tokens' = Refilled(n) - TokenUnit
                 /\ currentConcurrent' = currentConcurrent + 1
                 /\ admitCount' = Min(admitCount + 1, NumCallers)
                 /\ pc' = [pc EXCEPT ![c] = "running"]
                 /\ wake' = [wake EXCEPT ![c] = 0]
            ELSE /\ tokens' = Refilled(n)
                 /\ \E jitter \in jitters :
                        wake' = [wake EXCEPT ![c] = now + CeilWait(Refilled(n)) + jitter]
                 /\ pc' = [pc EXCEPT ![c] = "tokenWait"]
                 /\ UNCHANGED <<restVars, currentConcurrent, admitCount>>

\* execute() -> waitForToken(), up to its first suspension or its return
ExecuteWith(c, jitters) ==
    /\ pc[c] = "idle"
    /\ entryNow' = [entryNow EXCEPT ![c] = now]
    /\ IF isPaused /\ now < pauseUntil
       THEN /\ pc' = [pc EXCEPT ![c] = "pauseWait"]
            /\ wake' = [wake EXCEPT ![c] = pauseUntil]
            /\ UNCHANGED <<restVars, tokens, lastRefill, currentConcurrent, admitCount>>
       ELSE SlotCheckAndRefillWith(c, now, jitters)
    /\ UNCHANGED <<restVars, now, isPaused, pauseUntil, monVars, qVars>>
Execute(c) == ExecuteWith(c, JitterValues)

\* the setTimeout(waitTime) of the pause branch fires
PauseWake(c) ==
    /\ pc[c] = "pauseWait"
    /\ wake[c] <= now
    /\ isPaused' = FALSE
    /\ SlotCheckAndRefillWith(c, entryNow[c], JitterValues)
    /\ UNCHANGED <<restVars, now, pauseUntil, entryNow, monVars, qVars>>

\* the setTimeout(10) of the slot loop fires
SlotWakeWith(c, jitters) ==
    /\ pc[c] = "slotWait"
    /\ Due(c)
    /\ SlotCheckAndRefillWith(c, entryNow[c], jitters)
    /\ UNCHANGED <<restVars, now, isPaused, pauseUntil, entryNow, monVars, qVars>>
SlotWake(c) == SlotWakeWith(c, JitterValues)

\* the setTimeout(ceil(waitTime) + jitter) of the token wait fires
TokenWake(c) ==
    /\ pc[c] = "tokenWait"
    /\ wake[c] <= now
    /\ tokens' = 0
    /\ lastRefill' = now
    /\ currentConcurrent' = currentConcurrent + 1
    /\ admitCount' = Min(admitCount + 1, NumCallers)
    /\ pc' = [pc EXCEPT ![c] = "running"]
    /\ wake' = [wake EXCEPT ![c] = 0]
    /\ UNCHANGED <<restVars, now, isPaused, pauseUntil, entryNow, monVars, qVars>>

\* fn() settles; the finally block of execute() releases the slot.  A call
\* that was answered HTTP 429 goes on to report it.
Settle(c) ==
    /\ pc[c] = "running"
    /\ currentConcurrent' = Max(0, currentConcurrent - 1)
    /\ \E outcome \in {"done", "throttled"} : pc' = [pc EXCEPT ![c] = outcome]
    /\ UNCHANGED <<restVars, now, tokens, lastRefill, isPaused, pauseUntil, entryNow, wake, admitCount, monVars, qVars>>

\* a backoff() that leaves the limiter as it is
BackoffNothing == UNCHANGED <<pauseUntil, isPaused, tokens, lastRefill>>
\* the body of handle429(), which backoff() calls
Backoff ==
    /\ \E jitter \in JitterValues :
          pauseUntil' = now + BASE_BACKOFF + jitter
    /\ isPaused' = TRUE
    /\ tokens' = 0
    /\ lastRefill' = now

\* handle429() / backoff(), called by the owner of a call answered 429
Handle429(c) ==
    /\ pc[c] = "throttled"
    /\ Backoff
    /\ pc' = [pc EXCEPT ![c] = "done"]
    /\ UNCHANGED <<restVars, now, currentConcurrent, entryNow, wake, admitCount, monVars, qVars>>

\* time passes up to the next timer deadline at most; a due timer runs first
AdvanceTimeRL ==
    /\ \A c \in Callers : ~Due(c)
    /\ \E d \in TimeStepsRL :
          now' = SetMin({now + d} \cup {Deadline(c) : c \in {x \in Callers : Armed(x)}})
    /\ now' <= MaxTimeRL
    /\ UNCHANGED <<restVars, rlVars, monVars, qVars>>

(***************************************************************************)
(*                             SolanaMonitor                               *)
(***************************************************************************)

MAX_PROCESSED_SIGNATURES == 10000   \* processedSignatures.size > 10000 => clear()
TICK_INTERVAL == 1000               \* setInterval(..., 1000)
maxBatchPerTick == 3                \* processedCount >= 3
maxAge == 45000                     \* now - firstSeen > 45000
maxAttempts == 8                    \* attempts >= 8
backoffUnit == 1000                 \* attempts * 1000

\* bounds of the exploration
NumSigs == 2
MaxReceived == 3
MaxTicksInFlight == 1
MaxTimeMon == 10000
MaxThrottled == 2
TimeStepMon == TICK_INTERVAL \div 2
\* signatures whose logs match the creation pattern
Sigs == 1..NumSigs
TickIds == 1..MaxTicksInFlight
\* sizes the dedupe set can have when the exploration starts: it holds that
\* many signatures of earlier notifications that matched no creation pattern
SeenBefore == {0, MAX_PROCESSED_SIGNATURES - 1}

NoTimer == -1
FreeTick == [st |-> "free", cursor |-> 0, count |-> 0, sig |-> 0, tickNow |-> 0]

\* processedSignatures.size
SignaturesSize(ps) == Cardinality(ps.named) + ps.others

\* processedSignatures.add(signature) followed by the size test and clear()
AddSignatureClearLate(ps, named) ==
    LET added == IF named \in Sigs
                 THEN [ps EXCEPT !.named = @ \cup {named}]
                 ELSE [ps EXCEPT !.others = @ + 1]
    IN IF SignaturesSize(added) > MAX_PROCESSED_SIGNATURES + 1
       THEN [named |-> {}, others |-> 0]
       ELSE added
AddSignature(ps, named) ==
    LET added == IF named \in Sigs
                 THEN [ps EXCEPT !.named = @ \cup {named}]
                 ELSE [ps EXCEPT !.others = @ + 1]
    IN IF SignaturesSize(added) > MAX_PROCESSED_SIGNATURES
       THEN [named |-> {}, others |-> 0]
       ELSE added

\* processedSignatures.has(signature)
AlreadyProcessedNever(ps, s) == FALSE
AlreadyProcessed(ps, s) == s \in ps.named

\* pendingTransactions.has / set / delete, keeping the Map's insertion order
MapHas(q, s) == \E i \in 1..Len(q) : q[i].signature = s
MapSet(q, s, attempts, firstSeen, ord) ==
    IF MapHas(q, s)
    THEN [i \in 1..Len(q) |->
             IF q[i].signature = s
             THEN [q[i] EXCEPT !.attempts = attempts, !.firstSeen = firstSeen, !.fetches = 0]
             ELSE q[i]]
    ELSE Append(q, [signature |-> s, attempts |-> attempts, firstSeen |-> firstSeen,
                    ord |-> ord, fetches |-> 0])
MapDeleteNothing(q, s) == q
MapDelete(q, s) == SelectSeq(q, LAMBDA p : p.signature # s)
RemoveAt(q, i) == [j \in 1..(Len(q) - 1) |-> IF j < i THEN q[j] ELSE q[j + 1]]

\* the tests of processPendingTransactions that delete an entry
TooOld(p, tnow) == tnow - p.firstSeen > maxAge
AttemptsExhaustedLate(p) == p.attempts > maxAttempts
AttemptsExhausted(p) == p.attempts >= maxAttempts

\* the backoff test of processPendingTransaction, after attempts++
BackoffNotElapsed(p) ==
    /\ p.attempts > 1
    /\ now - p.firstSeen < p.attempts * backoffUnit

\* a loop that would leave the queue as it is
RunLoopNothing(q, cur, count, tnow, drops) == [q |-> q, drops |-> drops, tick |-> FreeTick]

\* The for-loop of processPendingTransactions from the entry after `cur` on,
\* up to the loop's end or the first `await this.getTransaction(...)`.  The
\* Map iterator is live: it visits the entries in insertion order, those
\* appended during the loop included.
RECURSIVE RunLoop(_, _, _, _, _)
RunLoop(q, cur, count, tnow, drops) ==
    LET rest == {i \in 1..Len(q) : q[i].ord > cur}
    IN IF rest = {} \/ count >= maxBatchPerTick
       THEN [q |-> q, drops |-> drops,
             tick |-> FreeTick]
       ELSE LET i == SetMin(rest)
                p == q[i]
                p2 == [p EXCEPT !.attempts = @ + 1]
                gone == [signature |-> p.signature, attempts |-> p.attempts,
                         fetches |-> p.fetches, age |-> tnow - p.firstSeen]
            IN IF TooOld(p, tnow) \/ AttemptsExhausted(p)
               THEN RunLoop(RemoveAt(q, i), p.ord, count, tnow, drops \cup {gone})
               ELSE IF BackoffNotElapsed(p2)
               THEN RunLoop([q EXCEPT ![i] = p2], p.ord, count + 1, tnow, drops)
               ELSE [q |-> [q EXCEPT ![i] = [p2 EXCEPT !.fetches = @ + 1]],
                     drops |-> drops,
                     tick |-> [st |-> "fetch", cursor |-> p.ord, count |-> count,
                               sig |-> p.signature, tickNow |-> tnow]]

\* pendingTransactions after getTransaction returned: `if (!tx) return`,
\* `if (tx.meta?.err) { this.pendingTransactions.delete(signature); return }`
AfterFetchDeleteUnlessDecoded(q, s, outcome) ==
    IF outcome # "decoded" THEN MapDelete(q, s) ELSE q
AfterFetch(q, s, outcome) ==
    IF outcome = "err" THEN MapDelete(q, s) ELSE q

\* the marks of the failed transactions when processedSignatures is cleared
BeforeClear(marks) == [x \in Sigs |-> IF marks[x] = "no" THEN "no" ELSE "beforeClear"]

\* the transaction of signature s was decoded at an earlier fetch
Succeeded(s) ==
    \/ invoked[s] > 0
    \/ \E u \in DOMAIN ticks : ticks[u].st = "enrich" /\ ticks[u].sig = s

\* handleMessage + processLogs for a logsNotification of signature s whose
\* logs match the creation pattern
Notify(s) ==
    /\ received < MaxReceived
    /\ received' = received + 1
    /\ IF AlreadyProcessed(processedSignatures, s)
       THEN UNCHANGED <<restVars, processedSignatures, pendingTransactions, processingInterval,
                        nextOrd, created, createdSinceClear, failed>>
            /\ notifiedSinceClear' = [notifiedSinceClear EXCEPT ![s] = @ + 1]
       ELSE /\ processedSignatures' = AddSignature(processedSignatures, s)
            /\ pendingTransactions' = MapSet(pendingTransactions, s, 0, now, nextOrd)
            /\ nextOrd' = nextOrd + 1
            /\ processingInterval' = IF processingInterval = NoTimer
                                     THEN now + TICK_INTERVAL
                                     ELSE processingInterval
            /\ created' = [created EXCEPT ![s] = @ + 1]
            /\ IF s \in processedSignatures'.named
               THEN /\ notifiedSinceClear' = [notifiedSinceClear EXCEPT ![s] = @ + 1]
                    /\ createdSinceClear' = [createdSinceClear EXCEPT ![s] = @ + 1]
                    /\ UNCHANGED failed
               ELSE /\ notifiedSinceClear' = [x \in Sigs |-> 0]
                    /\ createdSinceClear' = [x \in Sigs |-> 0]
                    /\ failed' = BeforeClear(failed)
    /\ UNCHANGED <<restVars, now, rlVars, qVars, ticks, dropped, invoked, backoffCalls>>

\* handleMessage + processLogs for a notification with a signature not seen
\* before whose logs match no creation pattern
NotifyOther ==
    /\ received < MaxReceived
    /\ received' = received + 1
    /\ processedSignatures' = AddSignature(processedSignatures, 0)
    /\ IF processedSignatures'.others = 0
       THEN /\ notifiedSinceClear' = [x \in Sigs |-> 0]
            /\ createdSinceClear' = [x \in Sigs |-> 0]
            /\ failed' = BeforeClear(failed)
       ELSE UNCHANGED <<restVars, notifiedSinceClear, createdSinceClear, failed>>
    /\ UNCHANGED <<restVars, now, rlVars, qVars, pendingTransactions, processingInterval, ticks,
                   nextOrd, created, dropped, invoked, backoffCalls>>

\* the interval timer fires: processPendingTransactions() up to its first await
Tick(t) ==
    /\ processingInterval # NoTimer
    /\ processingInterval <= now
    /\ ticks[t].st = "free"
    /\ \A u \in TickIds : u < t => ticks[u].st # "free"
    /\ LET r == RunLoop(pendingTransactions, 0, 0, now, {})
       IN /\ pendingTransactions' = r.q
          /\ dropped' = r.drops
          /\ ticks' = [ticks EXCEPT ![t] = r.tick]
    /\ processingInterval' = processingInterval + TICK_INTERVAL
    /\ UNCHANGED <<restVars, now, rlVars, qVars, processedSignatures, nextOrd, received, created,
                   notifiedSinceClear, createdSinceClear, invoked, failed, backoffCalls>>

\* getTransaction() returns to processPendingTransaction:
\*   "none"    null (not indexed yet, timeout, network error) or a
\*             transaction in which no mint address is found
\*   "err"     a transaction with meta.err
\*   "decoded" a transaction with a mint address: enrichment is awaited next
\* The transaction of a signature is the same at every fetch: it is not
\* found with meta.err once and without it another time.
GetTransactionReturns(t, outcome) ==
    /\ ticks[t].st = "fetch"
    /\ outcome = "decoded" => failed[ticks[t].sig] = "no"
    /\ outcome = "err" => ~Succeeded(ticks[t].sig)
    /\ failed' = IF outcome = "err"
                 THEN [failed EXCEPT ![ticks[t].sig] =
                          IF AlreadyProcessed(processedSignatures, ticks[t].sig)
                          THEN "sinceClear" ELSE "beforeClear"]
                 ELSE failed
    /\ LET s == ticks[t].sig
           q == AfterFetch(pendingTransactions, s, outcome)
           r == RunLoop(q, ticks[t].cursor, ticks[t].count + 1, ticks[t].tickNow, {})
       IN IF outcome = "decoded"
          THEN /\ ticks' = [ticks EXCEPT ![t].st = "enrich"]
               /\ UNCHANGED <<restVars, pendingTransactions, dropped>>
          ELSE /\ pendingTransactions' = r.q
               /\ dropped' = r.drops
               /\ ticks' = [ticks EXCEPT ![t] = r.tick]
    /\ UNCHANGED <<restVars, now, qVars, processedSignatures, processingInterval, nextOrd,
                   received, created, notifiedSinceClear, createdSinceClear, invoked>>

FetchReturn(t, outcome) ==
    /\ GetTransactionReturns(t, outcome)
    /\ UNCHANGED <<rlVars, backoffCalls>>

\* axios.post is answered HTTP 429 and throws: the catch block of
\* getTransaction calls rpcRateLimiter.backoff() and returns null
FetchThrottled(t) ==
    /\ backoffCalls < MaxThrottled
    /\ GetTransactionReturns(t, "none")
    /\ Backoff
    /\ backoffCalls' = backoffCalls + 1
    /\ UNCHANGED <<currentConcurrent, pc, entryNow, wake, admitCount>>

\* the reserves / enrichment fetch returns: the callback is invoked, the
\* entry is deleted and the loop goes on
EnrichReturn(t) ==
    /\ ticks[t].st = "enrich"
    /\ LET r == RunLoop(MapDelete(pendingTransactions, ticks[t].sig),
                        ticks[t].cursor, ticks[t].count + 1, ticks[t].tickNow, {})
       IN /\ pendingTransactions' = r.q
          /\ dropped' = r.drops
          /\ ticks' = [ticks EXCEPT ![t] = r.tick]
    /\ invoked' = [invoked EXCEPT ![ticks[t].sig] = @ + 1]
    /\ UNCHANGED <<restVars, now, rlVars, qVars, processedSignatures, processingInterval, nextOrd,
                   received, created, notifiedSinceClear, createdSinceClear, failed, backoffCalls>>

\* time passes, up to the next firing of the interval timer at most
AdvanceTimeMon ==
    /\ processingInterval # NoTimer => now < processingInterval
    /\ now' = IF processingInterval # NoTimer
              THEN Min(now + TimeStepMon, processingInterval)
              ELSE now + TimeStepMon
    /\ now' <= MaxTimeMon
    /\ UNCHANGED <<restVars, rlVars, monVars, qVars>>

\* the fields after construction, with `seen` signatures already in the set
MonConstructed(seen) ==
    /\ processedSignatures = [named |-> {}, others |-> seen]
    /\ pendingTransactions = <<>>
    /\ processingInterval = NoTimer
    /\ ticks = [t \in TickIds |-> FreeTick]
    /\ nextOrd = 1
    /\ received = 0
    /\ created = [s \in Sigs |-> 0]
    /\ notifiedSinceClear = [s \in Sigs |-> 0]
    /\ createdSinceClear = [s \in Sigs |-> 0]
    /\ dropped = {}
    /\ invoked = [s \in Sigs |-> 0]
    /\ failed = [s \in Sigs |-> "no"]
    /\ backoffCalls = 0

(***************************************************************************)
(*                     TokenScanner quarantine (index.ts)                  *)
(* processQueue(quarantineDuration, maxBatchSize, maxWaitingRoomSize,      *)
(* garbageCollectAge) is modelled for a small instance of its parameters:  *)
(* startQueueProcessor passes 30000, 5, 200, 60000 on a 1000 ms timer; the *)
(* instance keeps the order of the durations (timer period < quarantine   *)
(* duration < garbage-collect age = 2 * quarantine duration), in a time    *)
(* unit of half a timer period.                                            *)
(***************************************************************************)

CHECK_INTERVAL == 2
quarantineDuration == 4
garbageCollectAge == 8
maxBatchSize == 2
maxWaitingRoomSize == 2

\* bounds of the exploration
MaxAdmits == 5
MaxQTicksInFlight == 2
MaxTimeQ == 10
Mints == {"m1", "m2", "m3"}
EntryIds == 1..MaxAdmits
QTickIds == 1..MaxQTicksInFlight
FreeQTick == [st |-> "free", remaining |-> <<>>, batch |-> 0]

\* the entries of a sequence, as a set of identities
IdsOf(q) == {q[i].id : i \in 1..Len(q)}
RoomHas(q, m) == \E i \in 1..Len(q) : q[i].address = m
RoomGet(q, m) == q[CHOOSE i \in 1..Len(q) : q[i].address = m]

\* waitingRoom.set(address, entry): a known key keeps its place
RoomSet(q, e) ==
    IF RoomHas(q, e.address)
    THEN [i \in 1..Len(q) |-> IF q[i].address = e.address THEN e ELSE q[i]]
    ELSE Append(q, e)

RECURSIVE RoomSetAll(_, _)
RoomSetAll(q, es) ==
    IF es = <<>> THEN q ELSE RoomSetAll(RoomSet(q, Head(es)), Tail(es))

\* the entries that a sequence of waitingRoom.set calls replaces
RECURSIVE ReplacedBy(_, _)
ReplacedBy(q, es) ==
    IF es = <<>> THEN {}
    ELSE (IF RoomHas(q, Head(es).address) THEN {RoomGet(q, Head(es).address).id} ELSE {})
         \cup ReplacedBy(RoomSet(q, Head(es)), Tail(es))

\* the garbage collector's test and the readiness test of processQueue
TooOldForRoom(e, tnow) == tnow - e.firstSeen > garbageCollectAge
IsReadyStrict(e, tnow) == tnow - e.firstSeen > quarantineDuration
IsReady(e, tnow) == tnow - e.firstSeen >= quarantineDuration

\* a garbage collector that would not look at the size of the room
AfterGCAnySize(q, tnow) == SelectSeq(q, LAMBDA e : ~TooOldForRoom(e, tnow))

\* waitingRoom after the garbage collector pass (index.ts:357-372)
AfterGC(q, tnow) ==
    IF Len(q) > maxWaitingRoomSize
    THEN SelectSeq(q, LAMBDA e : ~TooOldForRoom(e, tnow))
    ELSE q

\* batch = tokensToProcess.slice(0, maxBatchSize); remaining = .slice(maxBatchSize)
Batch(ready) == SubSeq(ready, 1, Min(maxBatchSize, Len(ready)))
RemainingFromBatchEnd(ready) == SubSeq(ready, maxBatchSize, Len(ready))
Remaining(ready) == SubSeq(ready, maxBatchSize + 1, Len(ready))

\* processToken(tokenData) for a valid address m: waitingRoom.set(m, {data, firstSeen})
Admit(m) ==
    /\ nextId <= MaxAdmits
    /\ LET e == [address |-> m, id |-> nextId, firstSeen |-> now, deferred |-> FALSE]
       IN /\ waitingRoom' = RoomSet(waitingRoom, e)
          /\ replaced' = replaced \cup ReplacedBy(waitingRoom, <<e>>)
    /\ nextId' = nextId + 1
    /\ lastAdmit' = [lastAdmit EXCEPT ![m] = now]
    /\ UNCHANGED <<restVars, now, rlVars, monVars, queueProcessorInterval, qTicks, emitted,
                   overwritten, collected, emittedNow>>

\* the quarantine timer fires: processQueue() up to `await Promise.all(...)`,
\* the batch being handed to validateAndAlert before the await
QTick(t) ==
    /\ queueProcessorInterval <= now
    /\ qTicks[t].st = "free"
    /\ \A u \in QTickIds : u < t => qTicks[u].st # "free"
    /\ LET kept == AfterGC(waitingRoom, now)
           ready == SelectSeq(kept, LAMBDA e : IsReady(e, now))
           batch == Batch(ready)
       IN /\ waitingRoom' = SelectSeq(kept, LAMBDA e : ~IsReady(e, now))
          /\ collected' = collected \cup (IdsOf(waitingRoom) \ IdsOf(kept))
          /\ emitted' = [i \in EntryIds |->
                            IF i \in IdsOf(batch) THEN emitted[i] + 1 ELSE emitted[i]]
          /\ emittedNow' = {[id |-> batch[i].id,
                             age |-> now - batch[i].firstSeen,
                             sinceLastAdmit |-> now - lastAdmit[batch[i].address],
                             deferred |-> batch[i].deferred] : i \in 1..Len(batch)}
          /\ qTicks' = [qTicks EXCEPT ![t] =
                           IF ready = <<>> THEN FreeQTick
                           ELSE [st |-> "await", remaining |-> Remaining(ready),
                                 batch |-> Len(batch)]]
    /\ queueProcessorInterval' = queueProcessorInterval + CHECK_INTERVAL
    /\ UNCHANGED <<restVars, now, rlVars, monVars, nextId, lastAdmit, replaced, overwritten>>

\* Promise.all of the batch settles: the entries beyond the batch are put back
QTickResume(t) ==
    /\ qTicks[t].st = "await"
    /\ LET back == [i \in 1..Len(qTicks[t].remaining) |->
                       [qTicks[t].remaining[i] EXCEPT !.deferred = TRUE]]
       IN /\ waitingRoom' = RoomSetAll(waitingRoom, back)
          /\ overwritten' = overwritten \cup ReplacedBy(waitingRoom, back)
    /\ qTicks' = [qTicks EXCEPT ![t] = FreeQTick]
    /\ UNCHANGED <<restVars, now, rlVars, monVars, queueProcessorInterval, nextId, emitted,
                   lastAdmit, replaced, collected, emittedNow>>

\* time passes, up to the next firing of the quarantine timer at most
AdvanceTimeQ ==
    /\ now < queueProcessorInterval
    /\ now' = now + 1
    /\ now' <= MaxTimeQ
    /\ UNCHANGED <<restVars, rlVars, monVars, qVars>>

\* the scanner once started: empty waiting room, quarantine timer running
QConstructed ==
    /\ waitingRoom = <<>>
    /\ queueProcessorInterval = CHECK_INTERVAL
    /\ qTicks = [t \in QTickIds |-> FreeQTick]
    /\ nextId = 1
    /\ emitted = [i \in EntryIds |-> 0]
    /\ lastAdmit = [m \in Mints |-> 0]
    /\ replaced = {}
    /\ overwritten = {}
    /\ collected = {}
    /\ emittedNow = {}

(***************************************************************************)
(*        SolanaMonitor connection, timers and stop()                      *)
(* The retrieval queue is followed here by its size only: every entry is   *)
(* fresh (no age or attempt drop, no backoff skip), notifications carry    *)
(* distinct signatures.                                                    *)
(***************************************************************************)

RECONNECT_DELAY == 5000             \* setTimeout(..., 5000)

\* bounds of the exploration
MaxLifePending == 2
MaxLifeRoom == 2
LifeTimeStep == 2500

LifeIdle == [st |-> "idle", left |-> 0, count |-> 0]

\* start(onNewToken): this.ws = new WebSocket(wsUrl)
Start ==
    /\ ws = "none"
    /\ ~stopped
    /\ ws' = "connecting"
    /\ UNCHANGED <<now, rlVars, monVars, qVars, fetchVars, msgVars, pipeVars, decVars, reconnectWait, startPromise, quarantineTimer, lifeRoom,
                   reconnectTimer, lifeInterval,
                   lifePending, lifeRun, stopped, afterStop>>

\* ws.on('open'): the two logsSubscribe requests are sent and resolve() is
\* called; when that settles the promise TokenScanner.start awaits, its
\* continuation calls startQueueProcessor()
WsOpen ==
    /\ ws = "connecting"
    /\ ws' = "open"
    /\ startPromise' = IF startPromise = "pending" THEN "resolved" ELSE startPromise
    /\ quarantineTimer' = (quarantineTimer \/ startPromise = "pending")
    /\ UNCHANGED <<now, rlVars, monVars, qVars, fetchVars, msgVars, pipeVars, decVars, reconnectWait, lifeRoom,
                   reconnectTimer, lifeInterval,
                   lifePending, lifeRun, stopped, afterStop>>

\* a close handler that reconnects only connections that had opened
WsCloseOpenedOnly ==
    /\ ws \in {"connecting", "open", "closing"}
    /\ ws' = "closed"
    /\ reconnectTimer' = (startPromise # "pending")
    /\ reconnectWait' = IF startPromise # "pending" THEN RECONNECT_DELAY ELSE 0
    /\ startPromise' = IF startPromise = "pending" THEN "rejected" ELSE startPromise
    /\ UNCHANGED <<now, rlVars, monVars, qVars, fetchVars, msgVars, pipeVars, decVars, quarantineTimer, lifeRoom,
                   lifeInterval, lifePending, lifeRun, stopped, afterStop>>

\* The connection ends: after a network failure, a failed handshake or
\* ws.close() the socket emits 'error' (reject(error), which settles the
\* promise of a start() that has not resolved) and then 'close':
\* setTimeout(() => this.start(onNewToken), 5000)
WsClose ==
    /\ ws \in {"connecting", "open", "closing"}
    /\ ws' = "closed"
    /\ reconnectTimer' = TRUE
    /\ reconnectWait' = RECONNECT_DELAY
    /\ startPromise' = IF startPromise = "pending" THEN "rejected" ELSE startPromise
    /\ UNCHANGED <<now, rlVars, monVars, qVars, fetchVars, msgVars, pipeVars, decVars, quarantineTimer, lifeRoom,
                   lifeInterval, lifePending, lifeRun, stopped, afterStop>>

\* time passes while the reconnection timer is pending
ReconnectDelay ==
    /\ reconnectTimer
    /\ reconnectWait > 0
    /\ reconnectWait' = reconnectWait - Min(reconnectWait, LifeTimeStep)
    /\ UNCHANGED <<now, rlVars, monVars, qVars, fetchVars, msgVars, pipeVars, decVars, ws, reconnectTimer,
                   startPromise, quarantineTimer, lifeRoom, lifeInterval, lifePending, lifeRun,
                   stopped, afterStop>>

\* the reconnection timer fires: start(onNewToken) opens a new connection
Reconnect ==
    /\ reconnectTimer
    /\ reconnectWait = 0
    /\ reconnectTimer' = FALSE
    /\ ws' = "connecting"
    /\ afterStop' = IF stopped THEN afterStop \cup {"connect"} ELSE afterStop
    /\ UNCHANGED <<now, rlVars, monVars, qVars, fetchVars, msgVars, pipeVars, decVars, reconnectWait, startPromise,
                   quarantineTimer, lifeRoom, lifeInterval, lifePending, lifeRun, stopped>>

\* ws.on('message') with a new signature and creation logs: handleMessage,
\* processLogs: pendingTransactions.set, startProcessingQueue if no timer
LifeNotify ==
    /\ ws = "open"
    /\ lifePending < MaxLifePending
    /\ lifePending' = lifePending + 1
    /\ lifeInterval' = IF lifeInterval = "null" THEN "running" ELSE lifeInterval
    /\ lifeRun' = IF lifeRun.st = "fetching"
                  THEN [lifeRun EXCEPT !.left = @ + 1] ELSE lifeRun
    /\ UNCHANGED <<now, rlVars, monVars, qVars, fetchVars, msgVars, pipeVars, decVars, reconnectWait, startPromise, quarantineTimer, lifeRoom,
                   ws, reconnectTimer, stopped, afterStop>>

\* the processing timer fires: processPendingTransactions() up to the await
\* of the first getTransaction
LifeTick ==
    /\ lifeInterval = "running"
    /\ lifeRun.st = "idle"
    /\ lifeRun' = IF lifePending = 0 THEN LifeIdle
                  ELSE [st |-> "fetching", left |-> lifePending - 1, count |-> 0]
    /\ afterStop' = IF stopped THEN afterStop \cup {"tick"} ELSE afterStop
    /\ UNCHANGED <<now, rlVars, monVars, qVars, fetchVars, msgVars, pipeVars, decVars, reconnectWait, startPromise, quarantineTimer, lifeRoom,
                   ws, reconnectTimer, lifeInterval,
                   lifePending, stopped>>

\* getTransaction settles: null leaves the entry queued, a transaction error
\* deletes it, a decoded token is handed to onNewTokenCallback (which puts
\* it into the waiting room, processToken) and deleted;
\* the loop goes on to the next entry while processedCount < 3
LifeFetchReturn(outcome) ==
    /\ lifeRun.st = "fetching"
    /\ outcome = "decoded" => lifeRoom < MaxLifeRoom
    /\ lifeRoom' = IF outcome = "decoded" THEN lifeRoom + 1 ELSE lifeRoom
    /\ lifePending' = IF outcome = "none" THEN lifePending ELSE lifePending - 1
    /\ afterStop' = IF stopped /\ outcome = "decoded"
                    THEN afterStop \cup {"emit"} ELSE afterStop
    /\ lifeRun' = IF lifeRun.left > 0 /\ lifeRun.count + 1 < maxBatchPerTick
                  THEN [st |-> "fetching", left |-> lifeRun.left - 1,
                        count |-> lifeRun.count + 1]
                  ELSE LifeIdle
    /\ UNCHANGED <<now, rlVars, monVars, qVars, fetchVars, msgVars, pipeVars, decVars, reconnectWait, startPromise, quarantineTimer,
                   ws, reconnectTimer, lifeInterval, stopped>>

\* the quarantine timer set by startQueueProcessor() fires once the dwell
\* time of the candidates in the waiting room has passed: processQueue()
\* takes them out
QuarantineTick ==
    /\ quarantineTimer
    /\ lifeRoom > 0
    /\ lifeRoom' = 0
    /\ UNCHANGED <<now, rlVars, monVars, qVars, fetchVars, msgVars, pipeVars, decVars, ws, reconnectTimer,
                   reconnectWait, startPromise, quarantineTimer, lifeInterval, lifePending,
                   lifeRun, stopped, afterStop>>

\* stop(): if (this.ws) this.ws.close();
\*         if (this.processingInterval) clearInterval(this.processingInterval)
Stop ==
    /\ ~stopped
    /\ stopped' = TRUE
    /\ ws' = IF ws \in {"connecting", "open"} THEN "closing" ELSE ws
    /\ lifeInterval' = IF lifeInterval = "running" THEN "cleared" ELSE lifeInterval
    /\ UNCHANGED <<now, rlVars, monVars, qVars, fetchVars, msgVars, pipeVars, decVars, reconnectWait, startPromise, quarantineTimer, lifeRoom,
                   reconnectTimer, lifePending, lifeRun,
                   afterStop>>

\* the monitor after construction
LifeConstructed ==
    /\ ws = "none"
    /\ reconnectTimer = FALSE
    /\ reconnectWait = 0
    /\ startPromise = "pending"
    /\ quarantineTimer = FALSE
    /\ lifeRoom = 0
    /\ lifeInterval = "null"
    /\ lifePending = 0
    /\ lifeRun = LifeIdle
    /\ stopped = FALSE
    /\ afterStop = {}

(***************************************************************************)
(*        SolanaMonitor message handler: what a stream message can raise   *)
(***************************************************************************)

\* the data of a stream message, by what the handler reads of it:
\*   shape: how far the path message.params.result.value exists
\*   sig:   value.signature (missing, a string, or a number)
\*   logs:  value.logs (missing, a string, an array of strings without or
\*          with a creation line, an array whose first element is a number)
MsgShapes == {"notJson", "null", "primitive", "otherMethod", "noParams",
              "noResult", "noValue", "value"}
MsgSigs == {"missing", "s1", "s2", "number"}
MsgLogs == {"missing", "string", "plain", "creation", "numberFirst"}
NoMessage == [shape |-> "none", sig |-> "missing", logs |-> "missing"]
Messages ==
    {[shape |-> sh, sig |-> "missing", logs |-> "missing"] : sh \in MsgShapes \ {"value"}}
    \cup {[shape |-> "value", sig |-> sg, logs |-> lg] : sg \in MsgSigs, lg \in MsgLogs}

\* logs.some(log => log.includes(...) || /.../.test(log)) of processLogs:
\* "throws" when logs has no method some, or an element no method includes
IsCreation(logs) ==
    CASE logs = "missing" -> "throws"
      [] logs = "string" -> "throws"
      [] logs = "numberFirst" -> "throws"
      [] logs = "creation" -> "yes"
      [] OTHER -> "no"

\* processLogs(signature, logs), an async function: an exception it raises
\* rejects the promise it returns
ProcessLogs(sig, logs) ==
    CASE IsCreation(logs) = "throws" -> "rejected"
      [] IsCreation(logs) = "no" -> "skipped"
      [] sig = "number" -> "rejected"     \* signature.substring is not a function
      [] OTHER -> "queued"

\* handleMessage(message), up to the call of processLogs:
\* "throws" (params is undefined), "skipped", or "process"
HandleMessage(m, seen) ==
    CASE m.shape \in {"null", "primitive", "otherMethod"} -> "skipped"
      [] m.shape = "noParams" -> "throws"
      [] m.shape \in {"noResult", "noValue"} -> "skipped"
      [] m.sig = "missing" -> "skipped"
      [] m.sig \in seen -> "skipped"
      [] OTHER -> "process"

\* ws.on('message'): try { handleMessage(JSON.parse(data)) } catch { }, the
\* promise of processLogs being neither awaited nor given a catch
OnMessageOutcome(m, seen) ==
    CASE m.shape = "notJson" -> "caught"
      [] HandleMessage(m, seen) = "throws" -> "caught"
      [] HandleMessage(m, seen) = "skipped" -> "skipped"
      [] OTHER -> ProcessLogs(m.sig, m.logs)

OnMessage(m) ==
    LET out == OnMessageOutcome(m, msgSeen)
        added == msgSeen \cup {m.sig}
    IN /\ msgLast' = m
       /\ msgOutcome' = out
       /\ msgSeen' = IF m.shape # "notJson" /\ HandleMessage(m, msgSeen) = "process"
                     THEN (IF Cardinality(added) > MAX_PROCESSED_SIGNATURES THEN {} ELSE added)
                     ELSE msgSeen
       /\ msgQueued' = IF out = "queued" THEN msgQueued \cup {m.sig} ELSE msgQueued
       /\ escaped' = (escaped \/ out = "rejected")
       /\ UNCHANGED <<now, rlVars, monVars, qVars, fetchVars, lifeVars, pipeVars, decVars>>

MsgConstructed ==
    /\ msgSeen = {}
    /\ msgQueued = {}
    /\ msgLast = NoMessage
    /\ msgOutcome = "none"
    /\ escaped = FALSE

(***************************************************************************)
(*   From transaction decode to scoring, per mint                          *)
(* SolanaMonitor.processPendingTransaction -> onNewTokenCallback ->        *)
(* TokenScanner.processToken -> processQueue -> validateAndAlert.          *)
(* pipe[m] counts the calls suspended at each await for mint m and, as     *)
(* history, the events that have happened; when an entry leaves the        *)
(* waiting room is left open here (the dwell time is in SpecQ).            *)
(***************************************************************************)

\* bounds of the exploration
NumPipeMints == 1
MaxFetched == 3

PipeMints == 1..NumPipeMints
PipeIdle == [fetched |-> 0,
             decoding |-> 0, enriching |-> 0, inRoom |-> 0, redecoding |-> 0, pricing |-> 0,
             decoded |-> 0, admitted |-> 0, redecoded |-> 0, scored |-> 0]

\* getTransaction returned the transaction creating the mint:
\* await this.extractTokenData(transaction)
Fetched(p) == [p EXCEPT !.fetched = @ + 1, !.decoding = @ + 1]

\* extractTokenData settles: with a mint address the token is enriched
\* (fetchBondingCurveReserves or enrichTokenData is awaited)
Decoded(p, found) ==
    IF found THEN [p EXCEPT !.decoding = @ - 1, !.decoded = @ + 1, !.enriching = @ + 1]
    ELSE [p EXCEPT !.decoding = @ - 1]

\* the enrichment settles: onNewTokenCallback(tokenData) -> processToken:
\* waitingRoom.set for a valid address; an exception ends in the catch
Enriched(p, outcome) ==
    IF outcome = "admit"
    THEN [p EXCEPT !.enriching = @ - 1, !.admitted = @ + 1, !.inRoom = 1]
    ELSE [p EXCEPT !.enriching = @ - 1]

\* processQueue takes the entry out of the waiting room: validateAndAlert
\* awaits fetchTokenDataFromBlockchain
ExitedNoAwait(p) == [p EXCEPT !.inRoom = 0, !.pricing = @ + 1]
Exited(p) == [p EXCEPT !.inRoom = 0, !.redecoding = @ + 1]

\* fetchTokenDataFromBlockchain settles (fresh data, or null): the price and
\* the holders are awaited; an exception ends in the catch
Redecoded(p, outcome) ==
    IF outcome = "throws" THEN [p EXCEPT !.redecoding = @ - 1]
    ELSE [p EXCEPT !.redecoding = @ - 1, !.redecoded = @ + 1, !.pricing = @ + 1]

\* Promise.all([getSolPrice, fetchTokenHolders]) settles: validateToken(...)
Scored(p, outcome) ==
    IF outcome = "throws" THEN [p EXCEPT !.pricing = @ - 1]
    ELSE [p EXCEPT !.pricing = @ - 1, !.scored = @ + 1]

PipeFetched(m) ==
    /\ pipe[m].fetched < MaxFetched
    /\ pipe' = [pipe EXCEPT ![m] = Fetched(@)]
    /\ UNCHANGED <<now, rlVars, monVars, qVars, fetchVars, lifeVars, msgVars, decVars>>

PipeDecoded(m, found) ==
    /\ pipe[m].decoding > 0
    /\ pipe' = [pipe EXCEPT ![m] = Decoded(@, found)]
    /\ UNCHANGED <<now, rlVars, monVars, qVars, fetchVars, lifeVars, msgVars, decVars>>

PipeEnriched(m, outcome) ==
    /\ pipe[m].enriching > 0
    /\ pipe' = [pipe EXCEPT ![m] = Enriched(@, outcome)]
    /\ UNCHANGED <<now, rlVars, monVars, qVars, fetchVars, lifeVars, msgVars, decVars>>

PipeExited(m) ==
    /\ pipe[m].inRoom = 1
    /\ pipe' = [pipe EXCEPT ![m] = Exited(@)]
    /\ UNCHANGED <<now, rlVars, monVars, qVars, fetchVars, lifeVars, msgVars, decVars>>

PipeRedecoded(m, outcome) ==
    /\ pipe[m].redecoding > 0
    /\ pipe' = [pipe EXCEPT ![m] = Redecoded(@, outcome)]
    /\ UNCHANGED <<now, rlVars, monVars, qVars, fetchVars, lifeVars, msgVars, decVars>>

PipeScored(m, outcome) ==
    /\ pipe[m].pricing > 0
    /\ pipe' = [pipe EXCEPT ![m] = Scored(@, outcome)]
    /\ UNCHANGED <<now, rlVars, monVars, qVars, fetchVars, lifeVars, msgVars, decVars>>

PipeConstructed ==
    pipe = [m \in PipeMints |-> PipeIdle]

(***************************************************************************)
(*   Account decoders (unnamed/part_005)                                   *)
(* A Buffer is a sequence of bytes; buffer offset k is element k + 1.      *)
(* A 64-bit value is the sequence of its bits, lowest first; a JavaScript  *)
(* number holding an integer is that sequence after rounding to 53         *)
(* significant bits, widened by one bit for the carry.                     *)
(***************************************************************************)

Null == [ok |-> FALSE]

Pow2(k) == IF k = 0 THEN 1 ELSE IF k = 1 THEN 2 ELSE IF k = 2 THEN 4 ELSE IF k = 3 THEN 8
           ELSE IF k = 4 THEN 16 ELSE IF k = 5 THEN 32 ELSE IF k = 6 THEN 64 ELSE 128

\* buffer.readBigUInt64LE(offset): the bits of the eight bytes at offset
ReadBigUInt64LE(buffer, offset) ==
    [i \in 1..64 |-> (buffer[offset + 1 + ((i - 1) \div 8)] \div Pow2((i - 1) % 8)) % 2]

\* the value of a BigInt, exactly
Exact(bits) == bits \o <<0>>

Msb(bits) ==
    IF \A i \in 1..Len(bits) : bits[i] = 0 THEN 0
    ELSE CHOOSE i \in 1..Len(bits) : bits[i] = 1 /\ \A j \in (i + 1)..Len(bits) : bits[j] = 0

RECURSIVE AddBit(_, _)
AddBit(bits, i) ==
    IF i > Len(bits) THEN bits
    ELSE IF bits[i] = 0 THEN [bits EXCEPT ![i] = 1]
    ELSE AddBit([bits EXCEPT ![i] = 0], i + 1)

\* Number(bigint): the nearest double, ties to even
NumberOf(bits) ==
    LET drop == Msb(bits) - 53
    IN IF drop <= 0 THEN Exact(bits)
       ELSE LET kept == [i \in 1..(Len(bits) + 1) |->
                            IF i > drop /\ i <= Len(bits) THEN bits[i] ELSE 0]
                half == bits[drop] = 1
                sticky == \E i \in 1..(drop - 1) : bits[i] = 1
                odd == bits[drop + 1] = 1
            IN IF half /\ (sticky \/ odd) THEN AddBit(kept, drop + 1) ELSE kept

\* Number(raw) / 1e6 and Number(raw) / 1e9: the dividend and the power of ten
Scaled(bits, decimals) == [number |-> NumberOf(bits), decimals |-> decimals]

\* fetchBondingCurveReserves, from `const buffer = accountInfo.data` on
DecodeReserves(buffer) ==
    IF Len(buffer) < 24 THEN Null
    ELSE [ok |-> TRUE,
          tokenReserves |-> Scaled(ReadBigUInt64LE(buffer, 8), 6),
          vSolReserves |-> Scaled(ReadBigUInt64LE(buffer, 16), 9)]

\* 64-bit values, as little-endian bytes: 0, 1, 500000000000, 30000000000,
\* 2^53, 2^53 + 1, 2^64 - 1
U64Samples ==
    {<<0, 0, 0, 0, 0, 0, 0, 0>>, <<1, 0, 0, 0, 0, 0, 0, 0>>,
     <<0, 136, 82, 106, 116, 0, 0, 0>>, <<0, 172, 35, 252, 6, 0, 0, 0>>,
     <<0, 0, 0, 0, 0, 0, 32, 0>>, <<1, 0, 0, 0, 0, 0, 32, 0>>,
     <<255, 255, 255, 255, 255, 255, 255, 255>>}

Discriminators == {<<0, 0, 0, 0, 0, 0, 0, 0>>, <<23, 183, 248, 55, 96, 216, 172, 96>>}

\* bonding-curve account data: discriminator, two u64, further fields or
\* none; and such data cut short
ReserveAccounts ==
    {d \o t \o v \o rest : d \in Discriminators, t \in U64Samples, v \in U64Samples,
                            rest \in {<<>>, <<1>>}}
ReserveBuffers ==
    ReserveAccounts \cup {SubSeq(b, 1, n) : b \in ReserveAccounts, n \in {0, 8, 16, 23}}

\* a decoder is applied once to the input the behaviour starts with
Given(op) == decOp = "none" /\ decInput.op = op

ApplyDecodeReserves ==
    /\ Given("reserves")
    /\ decOp' = "reserves"
    /\ decInput' = decInput.arg
    /\ decOutput' = DecodeReserves(decInput.arg)
    /\ UNCHANGED <<now, rlVars, monVars, qVars, fetchVars, lifeVars, msgVars, pipeVars>>

\* what one getAccountInfo call of the retry loop ends with: the account is
\* absent (null), the call fails or times out, or the account data arrives
Absent == [kind |-> "absent", data |-> <<>>]
Throws == [kind |-> "throws", data |-> <<>>]
Account(data) == [kind |-> "data", data |-> data]
CurveData == {<<>>,
              <<0, 0, 0, 0, 0, 0, 0, 0, 0, 136, 82, 106, 116, 0, 0, 0, 0, 172, 35, 252, 6, 0, 0>>,
              <<0, 0, 0, 0, 0, 0, 0, 0, 0, 136, 82, 106, 116, 0, 0, 0, 0, 172, 35, 252, 6, 0, 0, 0>>}
AttemptOutcomes == {Absent, Throws} \cup {Account(b) : b \in CurveData}
ReserveAttempts == 3

\* the retry loop of fetchBondingCurveReserves: accountInfo after it
RECURSIVE RetryLoop(_, _, _)
RetryLoop(outcomes, attempt, accountInfo) ==
    IF attempt > ReserveAttempts THEN accountInfo
    ELSE LET o == outcomes[attempt]
         IN IF o.kind = "throws" THEN RetryLoop(outcomes, attempt + 1, accountInfo)
            ELSE IF o.kind = "data" THEN o
            ELSE RetryLoop(outcomes, attempt + 1, Absent)

\* the getAccountInfo calls of the retry loop, in order: the commitment of
\* each and the sleep() that follows it
RETRY_SLEEP == 500
Commitment(attempt) == IF attempt = 1 THEN "processed" ELSE "confirmed"
RECURSIVE RetryCalls(_, _)
RetryCalls(outcomes, attempt) ==
    IF attempt > ReserveAttempts THEN <<>>
    ELSE LET found == outcomes[attempt].kind = "data"
             call == [commitment |-> Commitment(attempt),
                      sleep |-> IF ~found /\ attempt < ReserveAttempts
                                THEN RETRY_SLEEP ELSE 0]
         IN IF found THEN <<call>>
            ELSE <<call>> \o RetryCalls(outcomes, attempt + 1)

\* the return for an account that was not found after the attempts
NoAccountDefaults ==
    [ok |-> TRUE,
     tokenReserves |-> [number |-> [i \in 1..65 |-> 0], decimals |-> 6],
     vSolReserves |-> [number |-> [i \in 1..65 |-> 0], decimals |-> 9]]
NoAccount == Null

\* fetchBondingCurveReserves(mintAddress, solana): an invalid mint address
\* makes the derivation of the curve address throw, into the outer catch
FetchBondingCurveReserves(mintValid, outcomes) ==
    IF ~mintValid THEN Null
    ELSE LET accountInfo == RetryLoop(outcomes, 1, Absent)
         IN IF accountInfo.kind # "data" THEN NoAccount
            ELSE DecodeReserves(accountInfo.data)

\* fetchTokenDataFromBlockchain, from the reserves on: `reserves || undefined`
Undefined == [undefined |-> TRUE]
TokenDataFromBlockchain(metadata, reserves) ==
    IF ~metadata.ok /\ ~reserves.ok THEN Null
    ELSE [ok |-> TRUE,
          metadata |-> IF metadata.ok THEN metadata ELSE Undefined,
          reserves |-> IF reserves.ok THEN reserves ELSE Undefined]

SomeMetadata == [ok |-> TRUE, name |-> "n", symbol |-> "s"]

ApplyFetchReserves ==
    /\ Given("fetchReserves")
    /\ decOp' = "fetchReserves"
    /\ decInput' = decInput.arg
    /\ LET reserves == FetchBondingCurveReserves(decInput.arg.mintValid, decInput.arg.outcomes)
       IN decOutput' = [reserves |-> reserves,
                        tokenData |-> TokenDataFromBlockchain(decInput.arg.metadata, reserves),
                        calls |-> IF decInput.arg.mintValid
                                  THEN RetryCalls(decInput.arg.outcomes, 1) ELSE <<>>]
    /\ UNCHANGED <<now, rlVars, monVars, qVars, fetchVars, lifeVars, msgVars, pipeVars>>

(***************************************************************************)
(*   Metadata decoders: legacy (Metaplex PDA) and extension (Token-2022)   *)
(* Strings are sequences of UTF-8 bytes. A decoder gives its return value  *)
(* (out), the buffer regions it read (reads) and the field whose declared  *)
(* length ran past the end of the buffer, if any (overrun).                *)
(***************************************************************************)

U32Max == 2147483647

\* four bytes read most significant byte first
ReadUInt32BE(buffer, offset) ==
    IF buffer[offset + 1] >= 128 THEN U32Max
    ELSE buffer[offset + 4] + 256 * buffer[offset + 3] + 65536 * buffer[offset + 2]
         + 16777216 * buffer[offset + 1]

\* buffer.readUInt32LE(offset); a value above 2^31 - 1 is read as 2^31 - 1,
\* which is above every buffer length and every limit it is compared with
ReadUInt32LE(buffer, offset) ==
    IF buffer[offset + 4] >= 128 THEN U32Max
    ELSE buffer[offset + 1] + 256 * buffer[offset + 2] + 65536 * buffer[offset + 3]
         + 16777216 * buffer[offset + 4]

\* buffer.readUInt16LE(offset)
ReadUInt16LE(buffer, offset) == buffer[offset + 1] + 256 * buffer[offset + 2]

\* buffer.slice(start, end), both clamped to the buffer
Slice(buffer, start, end) == SubSeq(buffer, start + 1, Min(end, Len(buffer)))

Read(offset, n) == [at |-> offset, n |-> n]

\* the regions fetchBondingCurveReserves reads from the account data
ReservesReads(buffer) == IF Len(buffer) < 24 THEN {} ELSE {Read(8, 8), Read(16, 8)}

\* `offset + length > buffer.length` is ~Fits(buffer, offset, length)
FitsLoose(buffer, offset, length) == length <= Len(buffer) - offset + 8
Fits(buffer, offset, length) == length <= Len(buffer) - offset

\* the field whose declared length runs past the end of the buffer
Past(buffer, offset, length, field) == IF Fits(buffer, offset, length) THEN "none" ELSE field

IsSpace(b) == b \in {9, 10, 13, 32}

RECURSIVE TrimStart(_)
TrimStart(str) ==
    IF str # <<>> /\ IsSpace(Head(str)) THEN TrimStart(Tail(str)) ELSE str

RECURSIVE TrimEnd(_)
TrimEnd(str) ==
    IF str # <<>> /\ IsSpace(str[Len(str)]) THEN TrimEnd(SubSeq(str, 1, Len(str) - 1)) ELSE str

\* sanitizeString(str): str.replace(/\u0000/g, '').trim()
SanitizeString(str) == TrimEnd(TrimStart(SelectSeq(str, LAMBDA b : b # 0)))

NoField == [undefined |-> TRUE]
Field(str) == [undefined |-> FALSE, str |-> str]
\* `name || undefined`
OrUndefined(str) == IF str = <<>> THEN NoField ELSE Field(str)

Metadata(name, symbol, uri) == [ok |-> TRUE, name |-> name, symbol |-> symbol, uri |-> uri]
Returned(out, reads, overrun) == [out |-> out, reads |-> reads, overrun |-> overrun]

\* fetchMetadataOnce, from `const buffer = accountInfo.data` on
DecodeLegacy(buffer) ==
    IF Len(buffer) < 65 THEN Returned(Null, {}, "none")
    ELSE IF 65 + 4 > Len(buffer) THEN Returned(Null, {}, "none")
    ELSE
    LET nameLen == ReadUInt32LE(buffer, 65)
        reads1 == {Read(65, 4)}
    IN IF nameLen > 100 \/ ~Fits(buffer, 69, nameLen)
       THEN Returned(Null, reads1, Past(buffer, 69, nameLen, "name"))
       ELSE
    LET name == SanitizeString(Slice(buffer, 69, 69 + nameLen))
        offset2 == 69 + nameLen
        reads2 == reads1 \cup {Read(69, nameLen)}
    IN IF offset2 + 4 > Len(buffer)
       THEN Returned(Metadata(OrUndefined(name), NoField, NoField), reads2, "none")
       ELSE
    LET symbolLen == ReadUInt32LE(buffer, offset2)
        reads3 == reads2 \cup {Read(offset2, 4)}
    IN IF symbolLen > 20 \/ ~Fits(buffer, offset2 + 4, symbolLen)
       THEN Returned(Metadata(OrUndefined(name), NoField, NoField), reads3,
                     Past(buffer, offset2 + 4, symbolLen, "symbol"))
       ELSE
    LET symbol == SanitizeString(Slice(buffer, offset2 + 4, offset2 + 4 + symbolLen))
        offset3 == offset2 + 4 + symbolLen
        reads4 == reads3 \cup {Read(offset2 + 4, symbolLen)}
    IN IF offset3 + 4 > Len(buffer)
       THEN Returned(Metadata(OrUndefined(name), OrUndefined(symbol), NoField), reads4, "none")
       ELSE
    LET uriLen == ReadUInt32LE(buffer, offset3)
        reads5 == reads4 \cup {Read(offset3, 4)}
    IN IF uriLen > 200 \/ ~Fits(buffer, offset3 + 4, uriLen)
       THEN Returned(Metadata(OrUndefined(name), OrUndefined(symbol), NoField), reads5,
                     Past(buffer, offset3 + 4, uriLen, "uri"))
       ELSE
    LET uri == SanitizeString(Slice(buffer, offset3 + 4, offset3 + 4 + uriLen))
    IN Returned(Metadata(Field(name), Field(symbol), Field(uri)),
                reads5 \cup {Read(offset3 + 4, uriLen)}, "none")

\* a u32 little-endian length prefix followed by the bytes of the string
U32LE(n) == <<n % 256, (n \div 256) % 256, (n \div 65536) % 256, n \div 16777216>>
EncodeString(str) == U32LE(Len(str)) \o str

Zeros(n) == [i \in 1..n |-> 0]

\* the legacy layout: key (1), update authority (32), mint (32), then the
\* three strings; the rest of the account follows
EncodeLegacy(name, symbol, uri) ==
    <<4>> \o Zeros(64) \o EncodeString(name) \o EncodeString(symbol) \o EncodeString(uri)

\* bound of the exploration: strings of at most this many bytes over the
\* bytes NUL, space and "a", and the longest names the legacy layout allows
MaxStrLen == 2
StrBytes == {0, 32, 97}
RECURSIVE StringsUpTo(_)
StringsUpTo(n) ==
    IF n = 0 THEN {<<>>}
    ELSE LET shorter == StringsUpTo(n - 1)
         IN shorter \cup {Append(str, b) : str \in {x \in shorter : Len(x) = n - 1}, b \in StrBytes}
Strings == StringsUpTo(MaxStrLen)
LongNames == {[i \in 1..100 |-> 97], [i \in 1..101 |-> 97]}
Triples ==
    {<<name, symbol, uri>> : name \in Strings,
                             symbol \in {<<>>, <<0>>, <<97>>, <<32, 97>>},
                             uri \in {<<>>, <<97>>, <<97, 32>>}}
    \cup {<<name, <<97>>, <<97>>>> : name \in LongNames}

\* a buffer with the four bytes at offset replaced by a length
WithU32(buffer, offset, bytes) ==
    [i \in 1..Len(buffer) |->
        IF i > offset /\ i <= offset + 4 THEN bytes[i - offset] ELSE buffer[i]]

\* legacy accounts: well-formed ones, every prefix of some, and some with a
\* length prefix that declares more than the buffer holds
LegacyShort == EncodeLegacy(<<97>>, <<97, 97>>, <<97>>)
LegacyBuffers ==
    {EncodeLegacy(t[1], t[2], t[3]) : t \in Triples}
    \cup {SubSeq(LegacyShort, 1, n) : n \in 0..Len(LegacyShort)}
    \cup {WithU32(LegacyShort, offset, bytes) :
             offset \in {65, 70, 76},
             bytes \in {<<9, 0, 0, 0>>, <<255, 255, 255, 255>>, <<0, 0, 0, 1>>}}

ApplyDecodeLegacy ==
    /\ Given("legacy")
    /\ decOp' = "legacy"
    /\ decInput' = decInput.arg
    /\ decOutput' = DecodeLegacy(decInput.arg)
    /\ UNCHANGED <<now, rlVars, monVars, qVars, fetchVars, lifeVars, msgVars, pipeVars>>

TOKEN_METADATA_EXTENSION_TYPE == 4
BaseMintSize == 82

Broke(reads, overrun) == [kind |-> "break", reads |-> reads, overrun |-> overrun]

\* fetchToken2022Metadata, the body of `if (extensionType === TOKEN_METADATA_EXTENSION_TYPE ...)`:
\* it breaks out of the loop, returns the metadata, or falls through with
\* name and symbol both empty
ParseTokenMetadata(buffer, offset, reads) ==
    IF offset >= Len(buffer) THEN Broke(reads, "none")
    ELSE
    LET hasUpdateAuthority == buffer[offset + 1] = 1
        metaOffset1 == IF hasUpdateAuthority THEN offset + 1 + 32 ELSE offset + 1
        reads1 == reads \cup {Read(offset, 1)}
    IN IF metaOffset1 + 32 > Len(buffer) THEN Broke(reads1, "none")
       ELSE
    LET metaOffset2 == metaOffset1 + 32
    IN IF metaOffset2 + 4 > Len(buffer) THEN Broke(reads1, "none")
       ELSE
    LET nameLen == ReadUInt32LE(buffer, metaOffset2)
        reads2 == reads1 \cup {Read(metaOffset2, 4)}
        nameAt == metaOffset2 + 4
    IN IF ~Fits(buffer, nameAt, nameLen) THEN Broke(reads2, "name")
       ELSE
    LET name == SanitizeString(Slice(buffer, nameAt, nameAt + nameLen))
        metaOffset3 == nameAt + nameLen
        reads3 == reads2 \cup {Read(nameAt, nameLen)}
    IN IF metaOffset3 + 4 > Len(buffer) THEN Broke(reads3, "none")
       ELSE
    LET symbolLen == ReadUInt32LE(buffer, metaOffset3)
        reads4 == reads3 \cup {Read(metaOffset3, 4)}
        symbolAt == metaOffset3 + 4
    IN IF ~Fits(buffer, symbolAt, symbolLen) THEN Broke(reads4, "symbol")
       ELSE
    LET symbol == SanitizeString(Slice(buffer, symbolAt, symbolAt + symbolLen))
        metaOffset4 == symbolAt + symbolLen
        reads5 == reads4 \cup {Read(symbolAt, symbolLen)}
    IN IF metaOffset4 + 4 > Len(buffer) THEN Broke(reads5, "none")
       ELSE
    LET uriLen == ReadUInt32LE(buffer, metaOffset4)
        reads6 == reads5 \cup {Read(metaOffset4, 4)}
        uriAt == metaOffset4 + 4
    IN IF ~Fits(buffer, uriAt, uriLen) THEN Broke(reads6, "uri")
       ELSE
    LET uri == SanitizeString(Slice(buffer, uriAt, uriAt + uriLen))
        reads7 == reads6 \cup {Read(uriAt, uriLen)}
    IN IF name # <<>> \/ symbol # <<>>
       THEN [kind |-> "return", reads |-> reads7, overrun |-> "none",
             out |-> Metadata(Field(name), Field(symbol), Field(uri))]
       ELSE [kind |-> "empty", reads |-> reads7, overrun |-> "none"]

\* fetchToken2022Metadata, the `while (offset < buffer.length - 4)` loop
RECURSIVE ExtensionLoop(_, _, _)
ExtensionLoop(buffer, offset, reads) ==
    IF ~(offset < Len(buffer) - 4) THEN Returned(Null, reads, "none")
    ELSE IF offset + 4 > Len(buffer) THEN Returned(Null, reads, "none")
    ELSE
    LET extensionType == ReadUInt16LE(buffer, offset)
        reads1 == reads \cup {Read(offset, 2)}
    IN IF offset + 2 + 2 > Len(buffer) THEN Returned(Null, reads1, "none")
       ELSE
    LET extensionLength == ReadUInt16LE(buffer, offset + 2)
        reads2 == reads1 \cup {Read(offset + 2, 2)}
        value == offset + 4
    IN IF extensionLength = 0 THEN ExtensionLoop(buffer, value, reads2)
       ELSE IF extensionType = TOKEN_METADATA_EXTENSION_TYPE
       THEN LET parsed == ParseTokenMetadata(buffer, value, reads2)
            IN CASE parsed.kind = "break" -> Returned(Null, parsed.reads, parsed.overrun)
                 [] parsed.kind = "return" -> Returned(parsed.out, parsed.reads, "none")
                 [] parsed.kind = "empty" ->
                        ExtensionLoop(buffer, value + extensionLength, parsed.reads)
       ELSE ExtensionLoop(buffer, value + extensionLength, reads2)

\* fetchToken2022Metadata for a mint account owned by the Token-2022
\* program, from `const buffer = accountInfo.data` on
DecodeExtension(buffer) ==
    IF Len(buffer) < BaseMintSize THEN Returned(Null, {}, "none")
    ELSE ExtensionLoop(buffer, BaseMintSize, {})

U16LE(n) == <<n % 256, n \div 256>>
TLV(type, value) == U16LE(type) \o U16LE(Len(value)) \o value

\* the value of the metadata extension: update authority (presence flag
\* and, if present, 32 bytes), mint (32 bytes), then the three strings
MetadataValue(hasUpdateAuthority, name, symbol, uri) ==
    (IF hasUpdateAuthority THEN <<1>> \o Zeros(32) ELSE <<0>>) \o Zeros(32)
    \o EncodeString(name) \o EncodeString(symbol) \o EncodeString(uri)

\* the extension layout: the base mint region, the extensions that come
\* before the metadata extension, the metadata extension
EncodeExtension(before, hasUpdateAuthority, name, symbol, uri) ==
    Zeros(BaseMintSize) \o before
    \o TLV(TOKEN_METADATA_EXTENSION_TYPE, MetadataValue(hasUpdateAuthority, name, symbol, uri))

\* no extension, or one of another type, before the metadata extension
ExtensionsBefore == {<<>>, TLV(1, <<7, 7>>)}

\* mint accounts: well-formed ones, every prefix of one, and some with a
\* length prefix that declares more than the buffer holds
ExtensionShort == EncodeExtension(<<>>, FALSE, <<97>>, <<97, 97>>, <<97>>)
ExtensionBuffers ==
    {EncodeExtension(before, hasUpdateAuthority, t[1], t[2], t[3]) :
        before \in ExtensionsBefore, hasUpdateAuthority \in BOOLEAN, t \in Triples}
    \cup {SubSeq(ExtensionShort, 1, n) : n \in 0..Len(ExtensionShort)}
    \cup {WithU32(ExtensionShort, offset, bytes) :
             offset \in {119, 124, 130},
             bytes \in {<<9, 0, 0, 0>>, <<255, 255, 255, 255>>, <<0, 0, 0, 1>>}}

ApplyDecodeExtension ==
    /\ Given("extension")
    /\ decOp' = "extension"
    /\ decInput' = decInput.arg
    /\ decOutput' = DecodeExtension(decInput.arg)
    /\ UNCHANGED <<now, rlVars, monVars, qVars, fetchVars, lifeVars, msgVars, pipeVars>>

(***************************************************************************)
(*          Log-text binary decoder (decodeTokenMetadata)                  *)
(***************************************************************************)

Trim(str) == TrimEnd(TrimStart(str))

\* /^[\x20-\x7E]+$/.test(str)
Printable(str) == str # <<>> /\ \A i \in 1..Len(str) : str[i] >= 32 /\ str[i] <= 126

Failed(reads, overrun) == [kind |-> "fail", reads |-> reads, overrun |-> overrun]

\* FORMAT 1 of decodeTokenMetadata: the legacy layout, read with its own
\* limits; it returns name, symbol and uri or falls through to FORMAT 2
Format1(buffer) ==
    IF ~(Len(buffer) >= 69) THEN Failed({}, "none")
    ELSE
    LET reads0 == {Read(33, 32)}
    IN IF ~(65 + 4 <= Len(buffer)) THEN Failed(reads0, "none")
       ELSE
    LET nameLength == ReadUInt32LE(buffer, 65)
        reads1 == reads0 \cup {Read(65, 4)}
    IN IF ~(Fits(buffer, 69, nameLength) /\ nameLength > 0 /\ nameLength < 1000)
       THEN Failed(reads1, Past(buffer, 69, nameLength, "name"))
       ELSE
    LET nameStr == SanitizeString(Slice(buffer, 69, 69 + nameLength))
        reads2 == reads1 \cup {Read(69, nameLength)}
        offset2 == 69 + nameLength
    IN IF ~Printable(nameStr) THEN Failed(reads2, "none")
       ELSE IF ~(offset2 + 4 <= Len(buffer)) THEN Failed(reads2, "none")
       ELSE
    LET symbolLength == ReadUInt32LE(buffer, offset2)
        reads3 == reads2 \cup {Read(offset2, 4)}
    IN IF ~(Fits(buffer, offset2 + 4, symbolLength) /\ symbolLength > 0 /\ symbolLength < 100)
       THEN Failed(reads3, Past(buffer, offset2 + 4, symbolLength, "symbol"))
       ELSE
    LET symbolStr == SanitizeString(Slice(buffer, offset2 + 4, offset2 + 4 + symbolLength))
        reads4 == reads3 \cup {Read(offset2 + 4, symbolLength)}
        offset3 == offset2 + 4 + symbolLength
    IN IF ~Printable(symbolStr) THEN Failed(reads4, "none")
       ELSE IF ~(offset3 + 4 <= Len(buffer))
       THEN [kind |-> "return", reads |-> reads4, overrun |-> "none",
             out |-> Metadata(Field(nameStr), Field(symbolStr), NoField)]
       ELSE
    LET uriLength == ReadUInt32LE(buffer, offset3)
        reads5 == reads4 \cup {Read(offset3, 4)}
    IN IF ~(Fits(buffer, offset3 + 4, uriLength) /\ uriLength > 0 /\ uriLength < 500)
       THEN [kind |-> "return", reads |-> reads5,
             overrun |-> Past(buffer, offset3 + 4, uriLength, "uri"),
             out |-> Metadata(Field(nameStr), Field(symbolStr), NoField)]
       ELSE [kind |-> "return", reads |-> reads5 \cup {Read(offset3 + 4, uriLength)},
             overrun |-> "none",
             out |-> Metadata(Field(nameStr), Field(symbolStr),
                              Field(SanitizeString(Slice(buffer, offset3 + 4,
                                                         offset3 + 4 + uriLength))))]

\* FORMAT 2, the loop that collects the runs of printable ASCII bytes: a
\* run is pushed when the byte that ends it is met, if it has 2 to 50 bytes;
\* the run that reaches the end of the scanned bytes is never pushed
ReadableParts(buffer) ==
    LET scanned == Min(Len(buffer), 500)
        NonPrintable(i) == ~(buffer[i] >= 32 /\ buffer[i] <= 126)
        enders == {i \in 1..scanned : NonPrintable(i)}
        StartOf(e) ==
            IF \E i \in enders : i < e
            THEN 1 + CHOOSE i \in enders : i < e /\ \A k \in enders : k < e => k <= i
            ELSE 1
        pushing == {e \in enders : e - StartOf(e) >= 2 /\ e - StartOf(e) <= 50}
        Nth(n) == CHOOSE e \in pushing : Cardinality({k \in pushing : k < e}) = n - 1
    IN [n \in 1..Cardinality(pushing) |-> SubSeq(buffer, StartOf(Nth(n)), Nth(n) - 1)]

\* the filter of FORMAT 2; "cv", "qu" and "4l" as bytes
ValidPart(part) ==
    LET trimmed == Trim(part)
    IN /\ Len(trimmed) >= 3
       /\ trimmed \notin {<<99, 118>>, <<113, 117>>, <<52, 108>>}
       /\ Printable(trimmed)

\* FORMAT 2 of decodeTokenMetadata
Format2(buffer) ==
    LET validParts == SelectSeq(ReadableParts(buffer), ValidPart)
    IN IF Len(validParts) >= 2
       THEN LET name == Trim(validParts[1])
                symbol == Trim(validParts[2])
            IN IF /\ name # <<>> /\ symbol # <<>>
                  /\ Len(name) >= 3 /\ Len(name) <= 50
                  /\ Len(symbol) >= 1 /\ Len(symbol) <= 20
               THEN Metadata(Field(name), Field(symbol), NoField)
               ELSE Null
       ELSE Null

\* decodeTokenMetadata, from `const buffer = Buffer.from(base64Data, 'base64')`
\* on; the mint address it also returns is left out
DecodeTokenMetadata(buffer) ==
    IF Len(buffer) < 10 THEN Returned(Null, {}, "none")
    ELSE LET format1 == Format1(buffer)
         IN IF format1.kind = "return"
            THEN Returned(format1.out, format1.reads, format1.overrun)
            ELSE Returned(Format2(buffer),
                          format1.reads \cup {Read(0, Min(Len(buffer), 500))},
                          format1.overrun)

\* payloads of a `Program data:` line: legacy-layout records, whole, cut
\* short or with an overrunning length; readable text between NUL bytes
LogRecord == EncodeLegacy(<<97, 97, 97>>, <<97, 97, 97>>, <<97>>)
LogBuffers ==
    {EncodeLegacy(t[1], t[2], t[3]) : t \in Triples}
    \cup {SubSeq(LogRecord, 1, n) : n \in 0..Len(LogRecord)}
    \cup {WithU32(LogRecord, offset, bytes) :
             offset \in {65, 72, 79},
             bytes \in {<<9, 0, 0, 0>>, <<255, 255, 255, 255>>, <<0, 0, 0, 1>>}}
    \cup {<<97, 97, 97, 0, 97, 97, 97, 0>>, <<97, 97, 97, 0, 97, 97, 97, 0, 0, 0>>,
          <<97, 97, 97, 0, 32, 32, 32, 0, 0, 0>>}

ApplyDecodeTokenMetadata ==
    /\ Given("logText")
    /\ decOp' = "logText"
    /\ decInput' = decInput.arg
    /\ decOutput' = DecodeTokenMetadata(decInput.arg)
    /\ UNCHANGED <<now, rlVars, monVars, qVars, fetchVars, lifeVars, msgVars, pipeVars>>

(***************************************************************************)
(*     Which decoder's metadata a record carries (monitor and scanner)     *)
(* The chain, as the calls for one mint see it: what each attempt of the   *)
(* extension decoder and of the legacy decoder returns, and what each      *)
(* attempt to read the bonding curve ends with.                            *)
(***************************************************************************)

\* `basicMeta && basicMeta.name`
HasName(metadata) ==
    metadata.ok /\ ~metadata.name.undefined /\ metadata.name.str # <<>>

\* the retry loops of fetchMetaplexMetadataWithRetry: basicMeta after the
\* attempts from the given one on, and the attempts made
RECURSIVE MetadataLoop(_, _, _)
MetadataLoop(results, attempt, limit) ==
    LET basicMeta == results[attempt]
    IN IF HasName(basicMeta) \/ attempt + 1 > limit
       THEN [basicMeta |-> basicMeta, attempts |-> attempt]
       ELSE MetadataLoop(results, attempt + 1, limit)

Repeat(decoder, n) == [i \in 1..n |-> decoder]

\* fetchMetaplexMetadataWithRetry without the off-chain JSON: the metadata
\* it returns and the decoders it called, in order; a mint address that is
\* not a public key makes the extension decoder return null and leaves no
\* metadata address to read
FetchMetaplexMetadataWithRetry(chain) ==
    LET token2022 == MetadataLoop([i \in 1..3 |-> IF chain.mintValid THEN chain.extension[i] ELSE Null],
                                  1, 3)
        called1 == Repeat("extension", token2022.attempts)
    IN IF HasName(token2022.basicMeta)
       THEN [metadata |-> token2022.basicMeta, called |-> called1]
       ELSE IF ~chain.mintValid
       THEN [metadata |-> token2022.basicMeta, called |-> called1]
       ELSE
    LET metaplex == MetadataLoop(chain.legacy, 1, 3)
        called2 == called1 \o Repeat("legacy", metaplex.attempts)
    IN IF HasName(metaplex.basicMeta)
       THEN [metadata |-> metaplex.basicMeta, called |-> called2]
       ELSE [metadata |-> chain.legacy[4], called |-> Append(called2, "legacy")]

\* the metadata of fetchTokenDataFromBlockchain's result: name and symbol
\* (description, image and social come from the off-chain JSON)
NameAndSymbol(metadata) ==
    IF metadata.ok THEN Metadata(metadata.name, metadata.symbol, NoField) ELSE Null

\* fetchTokenDataFromBlockchain without existingMetadata
FetchTokenDataFromBlockchain(chain) ==
    LET fetched == FetchMetaplexMetadataWithRetry(chain)
    IN [tokenData |-> TokenDataFromBlockchain(
                          NameAndSymbol(fetched.metadata),
                          FetchBondingCurveReserves(chain.mintValid, chain.reserves)),
        called |-> fetched.called]

\* `x?.metadata || y`
MetadataOr(tokenData, otherwise) ==
    IF tokenData.ok /\ tokenData.metadata # Undefined THEN tokenData.metadata ELSE otherwise

\* enrichTokenData
EnrichTokenData(chain) ==
    LET blockchainData == FetchTokenDataFromBlockchain(chain)
    IN [tokenData |-> IF /\ blockchainData.tokenData.ok
                         /\ blockchainData.tokenData.metadata # Undefined
                         /\ HasName(blockchainData.tokenData.metadata)
                      THEN blockchainData.tokenData ELSE Null,
        called |-> blockchainData.called]

Unknown == <<85, 110, 107, 110, 111, 119, 110>>

\* processPendingTransaction once the transaction is there and the mint is
\* found: the metadata of the record handed to onNewTokenCallback and the
\* decoders called for it; logMetadata is extractTokenData's metadata
ProcessPendingTransaction(logMetadata, chain) ==
    IF HasName(logMetadata) /\ logMetadata.name.str # Unknown
    THEN [metadata |-> logMetadata, called |-> <<"logText">>]
    ELSE LET enriched == EnrichTokenData(chain)
         IN [metadata |-> MetadataOr(enriched.tokenData, logMetadata),
             called |-> <<"logText">> \o enriched.called]

\* validateAndAlert up to enrichedTokenData: the metadata of the record that
\* is validated and alerted on
ValidateAndAlert(initialMetadata, chain) ==
    LET fresh == FetchTokenDataFromBlockchain(chain)
    IN [metadata |-> MetadataOr(fresh.tokenData, initialMetadata),
        called |-> fresh.called]

\* what a decoder attempt returns: nothing, a record without name, a
\* record with name and symbol
ExtensionResults ==
    {Null, Metadata(Field(<<>>), Field(<<88>>), Field(<<>>)),
     Metadata(Field(<<69>>), Field(<<69>>), Field(<<117>>))}
LegacyResults ==
    {Null, Metadata(NoField, NoField, NoField),
     Metadata(Field(<<76>>), Field(<<76>>), Field(<<117>>))}
\* extractTokenData's metadata: none, name and symbol, symbol only
LogResults ==
    {Null, Metadata(Field(<<84>>), Field(<<84>>), NoField),
     Metadata(Field(Unknown), Field(<<84>>), NoField)}

\* the same answer at every attempt, or nothing until the account appears
Answers(results, n) ==
    {[i \in 1..n |-> r] : r \in results}
    \cup {[i \in 1..n |-> IF i < k THEN Null ELSE r] : k \in 2..n, r \in results \ {Null}}

Chains ==
    {[mintValid |-> mintValid, extension |-> extension, legacy |-> legacy, reserves |-> reserves] :
        mintValid \in BOOLEAN, extension \in Answers(ExtensionResults, 3),
        legacy \in Answers(LegacyResults, 4),
        reserves \in {[i \in 1..ReserveAttempts |-> Absent],
                      [i \in 1..ReserveAttempts |-> Account(Zeros(24))]}}

ApplyProcessPendingTransaction ==
    /\ Given("processPending")
    /\ decOp' = "processPending"
    /\ decInput' = decInput.arg
    /\ decOutput' = ProcessPendingTransaction(decInput.arg.log, decInput.arg.chain)
    /\ UNCHANGED <<now, rlVars, monVars, qVars, fetchVars, lifeVars, msgVars, pipeVars>>

ApplyValidateAndAlert ==
    /\ Given("validateAndAlert")
    /\ decOp' = "validateAndAlert"
    /\ decInput' = decInput.arg
    /\ decOutput' = ValidateAndAlert(decInput.arg.log, decInput.arg.chain)
    /\ UNCHANGED <<now, rlVars, monVars, qVars, fetchVars, lifeVars, msgVars, pipeVars>>

\* processPendingTransaction from `const tokenData = await
\* this.extractTokenData(transaction)` on: whether onNewTokenCallback is
\* called and the metadata of the record it is called with; extractTokenData
\* returns null when it finds no mint address
Emission(mintFound, logMetadata, chain) ==
    IF ~mintFound THEN [callback |-> FALSE, metadata |-> Null]
    ELSE [callback |-> TRUE,
          metadata |-> ProcessPendingTransaction(logMetadata, chain).metadata]

ApplyEmission ==
    /\ Given("emission")
    /\ decOp' = "emission"
    /\ decInput' = decInput.arg
    /\ decOutput' = Emission(decInput.arg.mintFound, decInput.arg.log, decInput.arg.chain)
    /\ UNCHANGED <<now, rlVars, monVars, qVars, fetchVars, lifeVars, msgVars, pipeVars>>

\* The acceptance tests applied to (name, symbol) by the three producers of
\* metadata. Strings are sequences of UTF-16 code units; <<>> stands for ''
\* as for null and undefined (all falsy).
ToLowerCase(str) ==
    [i \in 1..Len(str) |-> IF str[i] >= 65 /\ str[i] <= 90 THEN str[i] + 32 ELSE str[i]]

Includes(str, word) ==
    \E i \in 1..(Len(str) - Len(word) + 1) : SubSeq(str, i, i + Len(word) - 1) = word

IsWordChar(c) == c \in (48..57) \cup (65..90) \cup {95} \cup (97..122)

Coin == <<99, 111, 105, 110>>

\* /\bcoin\b/.test(str)
CoinWord(str) ==
    \E i \in 1..(Len(str) - 3) :
        /\ SubSeq(str, i, i + 3) = Coin
        /\ (i = 1 \/ ~IsWordChar(str[i - 1]))
        /\ (i + 4 > Len(str) \/ ~IsWordChar(str[i + 4]))

blacklistWords ==
    {<<116, 101, 115, 116>>, <<115, 104, 105, 116>>, <<112, 117, 109, 112>>}

hasBlacklistedWord(nameLower, symbolLower) ==
    \E word \in blacklistWords : Includes(nameLower, word) \/ Includes(symbolLower, word)

isCoinAlone(nameLower, symbolLower) ==
    \/ nameLower = Coin
    \/ symbolLower = Coin
    \/ CoinWord(nameLower)
    \/ CoinWord(symbolLower)

\* /^[一-鿿Ѐ-ӿ\s]+$/.test(str)
cjkCyrillicRegex(str) ==
    /\ str # <<>>
    /\ \A i \in 1..Len(str) :
        \/ str[i] >= 19968 /\ str[i] <= 40959
        \/ str[i] >= 1024 /\ str[i] <= 1279
        \/ IsSpace(str[i])

Artefacts == {<<99, 118>>, <<113, 117>>, <<52, 108>>}

\* extractTokenDataFromLogs: TRUE when a record is returned.
ExtractTokenDataFromLogs(name, symbol) ==
    IF name = <<>> \/ symbol = <<>> THEN FALSE
    ELSE IF Len(name) <= 2 /\ name \in Artefacts THEN FALSE
    ELSE LET trimmed == Trim(name)
             nameLower == ToLowerCase(trimmed)
             symbolLower == ToLowerCase(Trim(symbol))
         IN ~(\/ hasBlacklistedWord(nameLower, symbolLower)
              \/ isCoinAlone(nameLower, symbolLower)
              \/ cjkCyrillicRegex(trimmed))

\* extractTokenData: TRUE when a record is returned.
ExtractTokenData(name, symbol) ==
    IF name = <<>> \/ name = Unknown THEN FALSE
    ELSE LET nameLower == Trim(ToLowerCase(name))
             symbolLower == Trim(ToLowerCase(symbol))
         IN ~(\/ hasBlacklistedWord(nameLower, symbolLower)
              \/ isCoinAlone(nameLower, symbolLower)
              \/ cjkCyrillicRegex(name))

\* fetchMetaplexMetadataWithRetry: whatever the extension or the metadata
\* account decoded is returned as soon as it has a name.
ReturnedOnChain(name, symbol) ==
    FetchMetaplexMetadataWithRetry(
        [mintValid |-> TRUE,
         extension |-> [a \in 1..3 |-> Metadata(Field(name), Field(symbol), NoField)],
         legacy |-> [a \in 1..4 |-> Null],
         reserves |-> Null]).metadata # Null

PostFilter(name, symbol) ==
    [logText |-> ExtractTokenDataFromLogs(name, symbol),
     transaction |-> ExtractTokenData(name, symbol),
     onChain |-> ReturnedOnChain(name, symbol)]

ApplyPostFilter ==
    /\ Given("postFilter")
    /\ decOp' = "postFilter"
    /\ decInput' = decInput.arg
    /\ decOutput' = PostFilter(decInput.arg.name, decInput.arg.symbol)
    /\ UNCHANGED <<now, rlVars, monVars, qVars, fetchVars, lifeVars, msgVars, pipeVars>>

DecConstructed ==
    /\ decOp = "none"
    /\ decInput = <<>>
    /\ decOutput = Null

(***************************************************************************)
(*      Account reads: rpcRateLimiter.execute around getAccountInfo        *)
(* fetchMetadataOnce and fetchBondingCurveReserves call                    *)
(* rpcRateLimiter.execute(() => Promise.race([connection.getAccountInfo,   *)
(* timeout])); the connection of createConnection sends every request      *)
(* through its `fetch` option, which calls rpcRateLimiter.execute again.   *)
(* The limiter is followed with its default rate (10 tokens, none of the   *)
(* calls below waits for a token) and maxConcurrent slots, within the      *)
(* timeout of the reads (2000 / 3000 ms against the 10 ms slot poll).      *)
(***************************************************************************)

defaultRate == 10                   \* maxRequestsPerSecond = 10

\* bound of the exploration
NumAccountFetches == 3
AccountFetches == 1..NumAccountFetches

\* waitForToken (lines 61-79) with tokens available: slot test, then
\* tokens -= 1 and currentConcurrent++
SlotFree(l) == l.currentConcurrent < maxConcurrent
Take(l) == [currentConcurrent |-> l.currentConcurrent + 1, tokens |-> l.tokens - 1]
\* the finally block of execute()
Release(l) == [l EXCEPT !.currentConcurrent = Max(0, @ - 1)]

\* fetchMetadataOnce / fetchBondingCurveReserves: rpcRateLimiter.execute(...)
FetchAccount(f) ==
    /\ accountFetch[f].outer = "idle"
    /\ IF SlotFree(fetchLimiter)
       THEN /\ fetchLimiter' = Take(fetchLimiter)
            /\ accountFetch' = [accountFetch EXCEPT ![f].outer = "running"]
       ELSE /\ accountFetch' = [accountFetch EXCEPT ![f].outer = "slotWait"]
            /\ UNCHANGED fetchLimiter
    /\ UNCHANGED <<now, rlVars, monVars, qVars, lifeVars, msgVars, pipeVars, decVars>>

\* the 10 ms poll of a caller waiting for a slot finds one
OuterSlotWake(f) ==
    /\ accountFetch[f].outer = "slotWait"
    /\ SlotFree(fetchLimiter)
    /\ fetchLimiter' = Take(fetchLimiter)
    /\ accountFetch' = [accountFetch EXCEPT ![f].outer = "running"]
    /\ UNCHANGED <<now, rlVars, monVars, qVars, lifeVars, msgVars, pipeVars, decVars>>

\* the caller's function runs: connection.getAccountInfo calls the `fetch`
\* option of the connection, i.e. rpcRateLimiter.execute a second time
ConnectionFetch(f) ==
    /\ accountFetch[f].outer = "running"
    /\ accountFetch[f].inner = "idle"
    /\ IF SlotFree(fetchLimiter)
       THEN /\ fetchLimiter' = Take(fetchLimiter)
            /\ accountFetch' = [accountFetch EXCEPT ![f].inner = "sent"]
       ELSE /\ accountFetch' = [accountFetch EXCEPT ![f].inner = "slotWait"]
            /\ UNCHANGED fetchLimiter
    /\ UNCHANGED <<now, rlVars, monVars, qVars, lifeVars, msgVars, pipeVars, decVars>>

\* the 10 ms poll of the connection's call finds a slot: the request is sent
InnerSlotWake(f) ==
    /\ accountFetch[f].inner = "slotWait"
    /\ SlotFree(fetchLimiter)
    /\ fetchLimiter' = Take(fetchLimiter)
    /\ accountFetch' = [accountFetch EXCEPT ![f].inner = "sent"]
    /\ UNCHANGED <<now, rlVars, monVars, qVars, lifeVars, msgVars, pipeVars, decVars>>

\* the response arrives: the connection's execute() releases its slot, and
\* the caller's execute(), if it still waits, returns and releases its own
Response(f) ==
    /\ accountFetch[f].inner = "sent"
    /\ IF accountFetch[f].outer = "running"
       THEN /\ accountFetch' = [accountFetch EXCEPT ![f] = [outer |-> "done", inner |-> "done"]]
            /\ fetchLimiter' = Release(Release(fetchLimiter))
       ELSE /\ accountFetch' = [accountFetch EXCEPT ![f].inner = "done"]
            /\ fetchLimiter' = Release(fetchLimiter)
    /\ UNCHANGED <<now, rlVars, monVars, qVars, lifeVars, msgVars, pipeVars, decVars>>

\* the timeout of Promise.race rejects: the caller's execute() releases its
\* slot; the connection's call goes on
RaceTimeout(f) ==
    /\ accountFetch[f].outer = "running"
    /\ accountFetch[f].inner \in {"slotWait", "sent"}
    /\ accountFetch' = [accountFetch EXCEPT ![f].outer = "timedOut"]
    /\ fetchLimiter' = Release(fetchLimiter)
    /\ UNCHANGED <<now, rlVars, monVars, qVars, lifeVars, msgVars, pipeVars, decVars>>

\* the idle limiter, no read started
FetchConstructed ==
    /\ accountFetch = [f \in AccountFetches |-> [outer |-> "idle", inner |-> "idle"]]
    /\ fetchLimiter = [currentConcurrent |-> 0, tokens |-> defaultRate]

RestConstructed ==
    /\ LifeConstructed
    /\ MsgConstructed
    /\ PipeConstructed
    /\ DecConstructed
    /\ FetchConstructed

\* the limiter after construction
RLConstructed ==
    /\ tokens = maxTokens
    /\ lastRefill = 0
    /\ currentConcurrent = 0
    /\ isPaused = FALSE
    /\ pauseUntil = 0
    /\ pc = [c \in Callers |-> "idle"]
    /\ entryNow = [c \in Callers |-> 0]
    /\ wake = [c \in Callers |-> 0]
    /\ admitCount = 0

InitMon ==
    /\ now = 0
    /\ RestConstructed
    /\ RLConstructed
    /\ QConstructed
    /\ \E seen \in SeenBefore : MonConstructed(seen)

NextMon ==
    \/ \E s \in Sigs : Notify(s)
    \/ NotifyOther
    \/ \E t \in TickIds : Tick(t)
    \/ \E t \in TickIds : \E outcome \in {"none", "err", "decoded"} : FetchReturn(t, outcome)
    \/ \E t \in TickIds : EnrichReturn(t)
    \/ AdvanceTimeMon

SpecMon == InitMon /\ [][NextMon]_vars

(***************************************************************************)
(* The monitor with a tick timer that keeps firing and RPC calls that      *)
(* return.  Timestamps are kept relative to the current instant (`now`     *)
(* stays 0 and the passing of e ms moves firstSeen, the timer's next       *)
(* firing and the `now` captured by a tick e ms into the past).  An entry  *)
(* older than AgeCap is kept as AgeCap old: it is older than maxAge for    *)
(* every tick in progress, and its backoff has elapsed.                    *)
(***************************************************************************)
AgeCap == maxAge + TICK_INTERVAL + 1

AdvanceTimeMonLive ==
    /\ processingInterval # NoTimer => now < processingInterval
    /\ LET e == IF processingInterval # NoTimer
                THEN Min(TimeStepMon, processingInterval - now)
                ELSE TimeStepMon
       IN /\ pendingTransactions' =
                 [i \in 1..Len(pendingTransactions) |->
                     [pendingTransactions[i] EXCEPT !.firstSeen = Max(@ - e, now - AgeCap)]]
          /\ processingInterval' = IF processingInterval # NoTimer
                                   THEN processingInterval - e ELSE NoTimer
          /\ ticks' = [t \in TickIds |->
                          IF ticks[t].st = "free" THEN ticks[t]
                          ELSE [ticks[t] EXCEPT !.tickNow = @ - e]]
    /\ UNCHANGED <<restVars, now, rlVars, qVars, processedSignatures, nextOrd, received, created,
                   notifiedSinceClear, createdSinceClear, dropped, invoked, failed,
                   backoffCalls>>

\* getTransaction() returns, with one outcome or another
FetchReturns(t) == \E outcome \in {"none", "err", "decoded"} : FetchReturn(t, outcome)

NextMonLive ==
    \/ \E s \in Sigs : Notify(s)
    \/ \E t \in TickIds : Tick(t)
    \/ \E t \in TickIds : FetchReturns(t)
    \/ \E t \in TickIds : EnrichReturn(t)
    \/ AdvanceTimeMonLive

SpecMonLive ==
    /\ InitMon
    /\ [][NextMonLive]_vars
    /\ \A t \in TickIds : WF_vars(Tick(t)) /\ WF_vars(FetchReturns(t)) /\ WF_vars(EnrichReturn(t))
    /\ WF_vars(AdvanceTimeMonLive)

InitQ ==
    /\ now = 0
    /\ RestConstructed
    /\ RLConstructed
    /\ MonConstructed(0)
    /\ QConstructed

NextQ ==
    \/ \E m \in Mints : Admit(m)
    \/ \E t \in QTickIds : QTick(t)
    \/ \E t \in QTickIds : QTickResume(t)
    \/ AdvanceTimeQ

SpecQ == InitQ /\ [][NextQ]_vars

InitRL ==
    /\ now = 0
    /\ RestConstructed
    /\ RLConstructed
    /\ MonConstructed(0)
    /\ QConstructed

NextRL ==
    \/ \E c \in Callers : Execute(c)
    \/ \E c \in Callers : PauseWake(c)
    \/ \E c \in Callers : SlotWake(c)
    \/ \E c \in Callers : TokenWake(c)
    \/ \E c \in Callers : Settle(c)
    \/ \E c \in Callers : Handle429(c)
    \/ AdvanceTimeRL

SpecRL == InitRL /\ [][NextRL]_vars

(***************************************************************************)
(* The limiter under a load that does not end: a caller whose call is over *)
(* issues its next call, and no call is reported as throttled.  Timestamps *)
(* are kept relative to the current instant (`now` stays 0 and the passing *)
(* of d ms moves every timestamp d ms into the past), which changes none   *)
(* of the comparisons of waitForToken.  Horizon is the time in which an    *)
(* empty bucket fills up: a refill or an entry older than that is kept as  *)
(* Horizon old.  getJitter() returns 0 throughout, as Math.random() may.   *)
(***************************************************************************)
Horizon == maxTokens \div refillRate
NoJitter == {0}
ExecuteAgain(c) == ExecuteWith(c, NoJitter)
SlotWakeAgain(c) == SlotWakeWith(c, NoJitter)
Waiting(c) == pc[c] \in {"pauseWait", "slotWait", "tokenWait"}

\* the next poll of a slot loop whose timer was armed at w, seen from `now`
Repoll(w) == IF w >= now THEN w ELSE now - ((now - w) % SLOT_POLL)

\* the owner of a finished call calls execute() again
Return(c) ==
    /\ pc[c] \in {"done", "throttled"}
    /\ pc' = [pc EXCEPT ![c] = "idle"]
    /\ UNCHANGED <<restVars, now, tokens, lastRefill, currentConcurrent, isPaused, pauseUntil,
                   entryNow, wake, admitCount, monVars, qVars>>

\* time passes up to the next timer deadline at most; a due timer runs first
AdvanceTimeLive ==
    /\ \A c \in Callers : ~Due(c)
    /\ \E d \in TimeStepsRL :
          LET e == SetMin({now + d} \cup {Deadline(c) : c \in {x \in Callers : Armed(x)}}) - now
          IN /\ lastRefill' = Max(lastRefill - e, now - Horizon)
             /\ pauseUntil' = Max(pauseUntil - e, now)
             /\ entryNow' = [c \in Callers |->
                                IF pc[c] \in {"pauseWait", "slotWait"}
                                THEN Max(entryNow[c] - e, now - Horizon) ELSE now]
             /\ wake' = [c \in Callers |->
                            IF pc[c] = "slotWait" THEN Repoll(wake[c] - e)
                            ELSE IF Waiting(c) THEN wake[c] - e ELSE wake[c]]
    /\ UNCHANGED <<restVars, now, tokens, currentConcurrent, isPaused, pc, admitCount,
                   monVars, qVars>>

NextRLLive ==
    \/ \E c \in Callers : ExecuteAgain(c)
    \/ \E c \in Callers : SlotWakeAgain(c)
    \/ \E c \in Callers : TokenWake(c)
    \/ \E c \in Callers : Settle(c)
    \/ \E c \in Callers : Return(c)
    \/ AdvanceTimeLive

\* every timer fires, every admitted function settles, time passes
SpecRLLive ==
    /\ InitRL
    /\ [][NextRLLive]_vars
    /\ \A c \in Callers : WF_vars(SlotWakeAgain(c)) /\ WF_vars(TokenWake(c)) /\ WF_vars(Settle(c))
    /\ WF_vars(AdvanceTimeLive)

InitLife ==
    /\ now = 0
    /\ RLConstructed
    /\ MonConstructed(0)
    /\ QConstructed
    /\ RestConstructed

NextLife ==
    \/ Start
    \/ WsOpen
    \/ WsClose
    \/ ReconnectDelay
    \/ Reconnect
    \/ LifeNotify
    \/ LifeTick
    \/ \E outcome \in {"none", "err", "decoded"} : LifeFetchReturn(outcome)
    \/ QuarantineTick
    \/ Stop

SpecLife == InitLife /\ [][NextLife]_vars

\* The timers of a process that keeps running fire: the reconnection
\* timeout runs down and calls start(), the quarantine interval calls
\* processQueue().
SpecLifeFair ==
    /\ SpecLife
    /\ WF_vars(ReconnectDelay)
    /\ WF_vars(Reconnect)
    /\ WF_vars(QuarantineTick)

InitMsg ==
    /\ now = 0
    /\ RLConstructed
    /\ MonConstructed(0)
    /\ QConstructed
    /\ RestConstructed

NextMsg ==
    \E m \in Messages : OnMessage(m)

SpecMsg == InitMsg /\ [][NextMsg]_vars

InitPipe ==
    /\ now = 0
    /\ RLConstructed
    /\ MonConstructed(0)
    /\ QConstructed
    /\ RestConstructed

NextPipe ==
    \/ \E m \in PipeMints : PipeFetched(m)
    \/ \E m \in PipeMints : \E found \in BOOLEAN : PipeDecoded(m, found)
    \/ \E m \in PipeMints : \E outcome \in {"admit", "invalid", "throws"} : PipeEnriched(m, outcome)
    \/ \E m \in PipeMints : PipeExited(m)
    \/ \E m \in PipeMints : \E outcome \in {"data", "null", "throws"} : PipeRedecoded(m, outcome)
    \/ \E m \in PipeMints : \E outcome \in {"scored", "throws"} : PipeScored(m, outcome)

SpecPipe == InitPipe /\ [][NextPipe]_vars

Input(op, arg) == [op |-> op, arg |-> arg]

\* '', 'ab', 'cv', 'test', 'Pump', 'coin', 'a coin', 'coins', 'Unknown',
\* one CJK character, one Cyrillic character, ' a '.
FilterNames ==
    {<<>>, <<97, 98>>, <<99, 118>>, <<116, 101, 115, 116>>, <<80, 117, 109, 112>>,
     Coin, <<97, 32, 99, 111, 105, 110>>, <<99, 111, 105, 110, 115>>, Unknown,
     <<20013>>, <<1046>>, <<32, 97, 32>>}

DecInputs ==
    {Input("reserves", buffer) : buffer \in ReserveBuffers}
    \cup {Input("fetchReserves",
                [mintValid |-> mintValid, outcomes |-> outcomes, metadata |-> metadata]) :
            mintValid \in BOOLEAN, outcomes \in [1..ReserveAttempts -> AttemptOutcomes],
            metadata \in {Null, SomeMetadata}}
    \cup {Input("legacy", buffer) : buffer \in LegacyBuffers}
    \cup {Input("extension", buffer) : buffer \in ExtensionBuffers}
    \cup {Input("logText", buffer) : buffer \in LogBuffers}
    \cup {Input(op, [log |-> log, chain |-> chain]) :
            op \in {"processPending", "validateAndAlert"}, log \in LogResults, chain \in Chains}
    \cup {Input("emission", [mintFound |-> mintFound, log |-> log, chain |-> chain]) :
            mintFound \in BOOLEAN, log \in LogResults, chain \in Chains}
    \cup {Input("postFilter", [name |-> name, symbol |-> symbol]) :
            name \in FilterNames, symbol \in FilterNames}

InitDec ==
    /\ now = 0
    /\ RLConstructed
    /\ MonConstructed(0)
    /\ QConstructed
    /\ LifeConstructed
    /\ MsgConstructed
    /\ PipeConstructed
    /\ FetchConstructed
    /\ decOp = "none"
    /\ decInput \in DecInputs
    /\ decOutput = Null

NextDec ==
    \/ ApplyDecodeReserves
    \/ ApplyDecodeLegacy
    \/ ApplyDecodeExtension
    \/ ApplyDecodeTokenMetadata
    \/ ApplyProcessPendingTransaction
    \/ ApplyValidateAndAlert
    \/ ApplyEmission
    \/ ApplyPostFilter
    \/ ApplyFetchReserves

SpecDec == InitDec /\ [][NextDec]_vars

InitFetch ==
    /\ now = 0
    /\ RLConstructed
    /\ MonConstructed(0)
    /\ QConstructed
    /\ RestConstructed

NextFetch ==
    \/ \E f \in AccountFetches : FetchAccount(f)
    \/ \E f \in AccountFetches : OuterSlotWake(f)
    \/ \E f \in AccountFetches : ConnectionFetch(f)
    \/ \E f \in AccountFetches : InnerSlotWake(f)
    \/ \E f \in AccountFetches : Response(f)
    \/ \E f \in AccountFetches : RaceTimeout(f)

SpecFetch == InitFetch /\ [][NextFetch]_vars

\* The monitor with overlapping runs of the tick: setInterval calls
\* processPendingTransactions() every TICK_INTERVAL whether or not an
\* earlier call is still awaiting getTransaction (timeout 5000 ms).
MaxOverlap == 2
MaxTimeOv == 3000
OvTickIds == 1..MaxOverlap

AdvanceTimeOv ==
    /\ processingInterval # NoTimer => now < processingInterval
    /\ now' = IF processingInterval # NoTimer
              THEN Min(now + TimeStepMon, processingInterval)
              ELSE now + TimeStepMon
    /\ now' <= MaxTimeOv
    /\ UNCHANGED <<restVars, rlVars, monVars, qVars>>

InitOv ==
    /\ now = 0
    /\ RLConstructed
    /\ QConstructed
    /\ RestConstructed
    /\ processedSignatures = [named |-> {}, others |-> 0]
    /\ pendingTransactions = <<>>
    /\ processingInterval = NoTimer
    /\ ticks = [t \in OvTickIds |-> FreeTick]
    /\ nextOrd = 1
    /\ received = 0
    /\ created = [s \in Sigs |-> 0]
    /\ notifiedSinceClear = [s \in Sigs |-> 0]
    /\ createdSinceClear = [s \in Sigs |-> 0]
    /\ dropped = {}
    /\ invoked = [s \in Sigs |-> 0]
    /\ failed = [s \in Sigs |-> "no"]
    /\ backoffCalls = 0

NextOv ==
    \/ \E s \in Sigs : Notify(s)
    \/ \E t \in OvTickIds : Tick(t)
    \/ \E t \in OvTickIds : \E outcome \in {"none", "err", "decoded"} : FetchReturn(t, outcome)
    \/ \E t \in OvTickIds : FetchThrottled(t)
    \/ \E t \in OvTickIds : EnrichReturn(t)
    \/ AdvanceTimeOv

SpecOv == InitOv /\ [][NextOv]_vars

\* C1: the in-flight counter always satisfies 0 <= inFlight <= maxInFlight
C1_InFlightBounded ==
    /\ 0 <= currentConcurrent
    /\ currentConcurrent <= maxConcurrent

\* C2: no call is admitted (starts running its function) before the most
\* recently recorded pause deadline pauseUntil
C2_NoAdmitBeforePauseDeadline ==
    [][\A c \in Callers :
          (pc[c] # "running" /\ pc'[c] = "running") => now' >= pauseUntil']_vars

\* C3: the token count always satisfies 0 <= availableTokens <= capacity
C3_TokensInRange ==
    /\ 0 <= tokens
    /\ tokens <= maxTokens

\* C4: the number of calls admitted by time T is at most
\* capacity + refillPerSecond * T
C4_TokenBucketRateBound ==
    admitCount * TokenUnit <= maxTokens + refillRate * now

\* C5: two notifications with the same signature create exactly one
\* PendingTransaction for it, whatever arrives between them
C5_OnePendingPerSignature ==
    \A s \in Sigs : created[s] <= 1

\* C5 (amended): as long as the dedupe set has not been wholesale-cleared since
\* the first notification of a signature was handled, the notifications of
\* that signature have created exactly one PendingTransaction
C5_OnePendingPerSignatureUntilClear ==
    \A s \in Sigs : notifiedSinceClear[s] >= 1 => createdSinceClear[s] = 1

C5_Witness ==
    \E s \in Sigs : notifiedSinceClear[s] >= 2 /\ createdSinceClear[s] = 1

\* C6: an entry is dropped by the tick only after exactly maxAttempts failed
\* getTransaction fetches, or when the tick's now - firstSeen > maxAge
C6_DroppedAfterMaxAttemptsFetchesOrAge ==
    \A d \in dropped : d.fetches = maxAttempts \/ d.age > maxAge

\* C7: every queued PendingTransaction has attempts < maxAttempts
C7_AttemptsBelowMax ==
    \A i \in 1..Len(pendingTransactions) : pendingTransactions[i].attempts < maxAttempts

\* C7 (amended): every queued PendingTransaction has attempts <= maxAttempts
C7_AttemptsAtMostMax ==
    \A i \in 1..Len(pendingTransactions) : pendingTransactions[i].attempts <= maxAttempts

C7_Witness ==
    \E i \in 1..Len(pendingTransactions) : pendingTransactions[i].attempts = maxAttempts

InRoom(i) == i \in IdsOf(waitingRoom)
Held(i) == \E t \in QTickIds : i \in IdsOf(qTicks[t].remaining)
Admitted(i) == i < nextId

\* C8: every admitted entry not replaced by a later admit of its mint is
\* emitted exactly once: never twice, and never removed from the waiting room
\* without being emitted
C8_EmittedExactlyOnce ==
    \A i \in EntryIds :
        /\ emitted[i] <= 1
        /\ (Admitted(i) /\ i \notin replaced /\ ~InRoom(i) /\ ~Held(i)) => emitted[i] = 1

\* C8 (amended): every admitted entry is emitted at most once, and an entry
\* that has left the waiting room without being emitted was replaced by a
\* later admit of its mint, replaced by the re-insertion of a deferred entry
\* of its mint, or deleted by the garbage collector
C8_EmittedOnceOrReplacedOrCollected ==
    \A i \in EntryIds :
        /\ emitted[i] <= 1
        /\ (Admitted(i) /\ ~InRoom(i) /\ ~Held(i)) =>
               \/ emitted[i] = 1 /\ i \notin replaced \cup overwritten \cup collected
               \/ emitted[i] = 0 /\ i \in replaced \cup overwritten \cup collected

C8_Witness ==
    \E i, j \in EntryIds :
        /\ i # j
        /\ emitted[i] = 1 /\ ~InRoom(i) /\ ~Held(i)
        /\ emitted[j] = 1 /\ ~InRoom(j) /\ ~Held(j)
        /\ \E e \in emittedNow : e.id = j /\ e.deferred
        /\ replaced # {}

\* C9: no entry is emitted earlier than the quarantine duration after the
\* most recent admit of its mint
C9_NotEmittedBeforeDwell ==
    \A e \in emittedNow : e.sinceLastAdmit >= quarantineDuration

C11_LastWriteWins ==
    /\ \A i, j \in 1..Len(waitingRoom) :
           waitingRoom[i].address = waitingRoom[j].address => i = j
    /\ \A i \in 1..Len(waitingRoom) :
           waitingRoom[i].firstSeen = lastAdmit[waitingRoom[i].address]
    /\ overwritten = {}

\* C12: after stop() no new connection is opened, no retrieval-queue tick
\* runs and no further candidate is emitted
C12_NothingAfterStop ==
    afterStop = {}

\* C13: the handling of every inbound stream message ends by skipping (or
\* queueing) the candidate; no exception or promise rejection escapes
C13_NoEscapedRejection ==
    /\ ~escaped
    /\ msgOutcome \in {"none", "caught", "skipped", "queued"}

\* C14: for every mint the events happen in the order decode, quarantine
\* admission, quarantine-exit re-decode, scoring: at any time the k-th
\* scoring of a mint has been preceded by k re-decodes, those by k exits of
\* admitted entries, and every admission by a decode
C14_DecodeAdmitRedecodeScore ==
    \A m \in PipeMints :
        /\ pipe[m].scored <= pipe[m].redecoded
        /\ pipe[m].redecoded + pipe[m].redecoding + pipe[m].inRoom <= pipe[m].admitted
        /\ pipe[m].admitted <= pipe[m].decoded

C14_Witness ==
    \E m \in PipeMints :
        /\ pipe[m].scored = 2 /\ pipe[m].redecoded = 2
        /\ pipe[m].admitted = 2 /\ pipe[m].decoded = 2

\* C15: after every notification the dedupe set has size <= 10,000; no
\* element is removed individually: the set only shrinks by being cleared
\* whole, by the notification that would bring its size above 10,000
C15_DedupeSetBounded ==
    /\ [](SignaturesSize(processedSignatures) <= MAX_PROCESSED_SIGNATURES)
    /\ [][\/ /\ processedSignatures.named \subseteq processedSignatures'.named
             /\ processedSignatures.others <= processedSignatures'.others
          \/ /\ SignaturesSize(processedSignatures') = 0
             /\ SignaturesSize(processedSignatures) = MAX_PROCESSED_SIGNATURES]_vars

C15_Witness ==
    /\ SignaturesSize(processedSignatures) = 0
    /\ \E s \in Sigs : created[s] >= 1

FirstData(outcomes) ==
    LET hits == {i \in 1..ReserveAttempts : outcomes[i].kind = "data"}
    IN IF hits = {} THEN Absent
       ELSE outcomes[CHOOSE i \in hits : \A j \in hits : i <= j]
Unreadable(input) ==
    \/ ~input.mintValid
    \/ FirstData(input.outcomes).kind # "data"
    \/ Len(FirstData(input.outcomes).data) < 24

\* C17: when the bonding-curve account is absent, every attempt fails, or
\* the data is shorter than 24 bytes, fetchBondingCurveReserves returns null
\* (no record of zeros), and the token data then carries no reserves
C17_UnreadableReservesAreNull ==
    (decOp = "fetchReserves" /\ Unreadable(decInput)) =>
        /\ decOutput.reserves = Null
        /\ decOutput.tokenData = Null \/ decOutput.tokenData.reserves = Undefined

C17_Witness ==
    /\ decOp = "fetchReserves"
    /\ decInput.mintValid
    /\ \A i \in 1..ReserveAttempts : decInput.outcomes[i].kind \in {"absent", "throws"}
    /\ decInput.outcomes[ReserveAttempts].kind = "throws"
    /\ decOutput.reserves = Null
    /\ decOutput.tokenData # Null
    /\ decOutput.tokenData.reserves = Undefined

\* what the decoder applied in this state returned, and the regions it read
DecodedOut == IF decOp = "reserves" THEN decOutput ELSE decOutput.out
DecodedReads == IF decOp = "reserves" THEN ReservesReads(decInput) ELSE decOutput.reads
Decoders == {"legacy", "extension", "reserves", "logText"}
MinLength ==
    [legacy |-> 65 + 4, extension |-> BaseMintSize, reserves |-> 24, logText |-> 10]
FieldOverrun == decOp # "reserves" /\ decOutput.overrun # "none"
ReadsInBounds ==
    \A r \in DecodedReads : r.at >= 0 /\ r.n >= 0 /\ r.at + r.n <= Len(decInput)

\* C18: a decoder given a buffer shorter than its minimum length, or a
\* field whose declared length runs past the end of the buffer, returns
\* null, and no decoder reads at an index outside the buffer
C18_ShortOrOverrunIsNull ==
    decOp \in Decoders =>
        /\ (Len(decInput) < MinLength[decOp] \/ FieldOverrun) => DecodedOut = Null
        /\ ReadsInBounds

\* C18 (amended): no decoder reads outside the buffer; a buffer shorter than
\* the minimum length gives null; an overrunning length gives null in the
\* extension decoder and for the legacy name, the fields decoded before it
\* in the legacy decoder for symbol and uri, and in the log-text decoder
\* the result of the readable-text scan (name, symbol) or, for the uri, the
\* name and symbol without uri
C18_NoReadOutsideShortIsNull ==
    decOp \in Decoders =>
        /\ ReadsInBounds
        /\ Len(decInput) < MinLength[decOp] => DecodedOut = Null
        /\ (decOp = "extension" /\ FieldOverrun) => DecodedOut = Null
        /\ (decOp = "legacy" /\ FieldOverrun) =>
              IF decOutput.overrun = "name" THEN DecodedOut = Null
              ELSE /\ DecodedOut.ok
                   /\ DecodedOut.name = OrUndefined(SanitizeString(
                          Slice(decInput, 69, 69 + ReadUInt32LE(decInput, 65))))
                   /\ decOutput.overrun = "symbol" => DecodedOut.symbol = NoField
                   /\ DecodedOut.uri = NoField
        /\ (decOp = "logText" /\ FieldOverrun) =>
              IF decOutput.overrun = "uri"
              THEN DecodedOut.ok /\ DecodedOut.uri = NoField
              ELSE DecodedOut = Format2(decInput)

\* a legacy account whose symbol length runs past the end: the name is
\* returned without symbol and uri
C18_Witness ==
    /\ decOp = "legacy"
    /\ decOutput.overrun = "symbol"
    /\ decOutput.out.ok
    /\ decOutput.out.name = Field(<<97>>)
    /\ decOutput.out.symbol = NoField
    /\ Read(70, 4) \in decOutput.reads

\* the triples within the limits of the legacy layout
WithinLegacyBounds(t) == Len(t[1]) <= 100 /\ Len(t[2]) <= 20 /\ Len(t[3]) <= 200
Exactly(t) == Metadata(Field(t[1]), Field(t[2]), Field(t[3]))
Sanitized(t) == <<SanitizeString(t[1]), SanitizeString(t[2]), SanitizeString(t[3])>>
\* no NUL byte, no whitespace at either end
Clean(str) ==
    /\ \A i \in 1..Len(str) : str[i] # 0
    /\ str # <<>> => ~IsSpace(str[1]) /\ ~IsSpace(str[Len(str)])
ExtensionEncodings(t) ==
    {EncodeExtension(before, hasUpdateAuthority, t[1], t[2], t[3]) :
        before \in ExtensionsBefore, hasUpdateAuthority \in BOOLEAN}

\* C19: decoding the legacy encoding (within the legacy limits) or the
\* extension encoding of a (name, symbol, uri) triple returns exactly the
\* name, symbol and uri that were encoded
C19_RoundTripExact ==
    \A t \in Triples :
        /\ (decOp = "legacy" /\ WithinLegacyBounds(t) /\ decInput = EncodeLegacy(t[1], t[2], t[3]))
              => decOutput.out = Exactly(t)
        /\ (decOp = "extension" /\ decInput \in ExtensionEncodings(t))
              => decOutput.out = Exactly(t)

\* C19 (amended): decoding returns each string with its NUL bytes removed
\* and trimmed, hence exactly the input for strings without NUL bytes and
\* without whitespace at either end; the extension decoder returns no
\* metadata when name and symbol are both empty after that
C19_RoundTripSanitized ==
    \A t \in Triples :
        /\ (decOp = "legacy" /\ WithinLegacyBounds(t) /\ decInput = EncodeLegacy(t[1], t[2], t[3]))
              => /\ decOutput.out = Exactly(Sanitized(t))
                 /\ (Clean(t[1]) /\ Clean(t[2]) /\ Clean(t[3])) => decOutput.out = Exactly(t)
        /\ (decOp = "extension" /\ decInput \in ExtensionEncodings(t))
              => IF Sanitized(t)[1] = <<>> /\ Sanitized(t)[2] = <<>>
                 THEN decOutput.out = Null
                 ELSE /\ decOutput.out = Exactly(Sanitized(t))
                      /\ (Clean(t[1]) /\ Clean(t[2]) /\ Clean(t[3]))
                            => decOutput.out = Exactly(t)

\* a mint with another extension before the metadata extension and an
\* update authority: "a\0", " a", "a " are decoded as "a", "a", "a"
C19_Witness ==
    /\ decOp = "extension"
    /\ decInput = EncodeExtension(TLV(1, <<7, 7>>), TRUE, <<97, 0>>, <<32, 97>>, <<97, 32>>)
    /\ decOutput.out = Exactly(<<<<97>>, <<97>>, <<97>>>>)

\* the first attempt of a decoder that returns a name, if any: the decoder
\* succeeds for the mint
FirstNamed(results, n) ==
    IF \E i \in 1..n : HasName(results[i])
    THEN results[CHOOSE i \in 1..n : HasName(results[i]) /\ \A k \in 1..(i - 1) : ~HasName(results[k])]
    ELSE Null
ExtensionSucceeds(chain) == chain.mintValid /\ FirstNamed(chain.extension, 3) # Null
LegacySucceeds(chain) == chain.mintValid /\ FirstNamed(chain.legacy, 4) # Null
\* the log-text decoder succeeds when it finds a name
LogTextSucceeds(log) == HasName(log) /\ log.name.str # Unknown
\* name and symbol of the first decoder that succeeds, in the order
\* extension, legacy, log-text
ByPriority(log, chain) ==
    IF ExtensionSucceeds(chain) THEN NameAndSymbol(FirstNamed(chain.extension, 3))
    ELSE IF LegacySucceeds(chain) THEN NameAndSymbol(FirstNamed(chain.legacy, 4))
    ELSE IF LogTextSucceeds(log) THEN NameAndSymbol(log)
    ELSE Null
Before(called, first, second) ==
    \A i, j \in 1..Len(called) : (called[i] = first /\ called[j] = second) => i < j

\* C20: the decoders are consulted in the order extension, legacy,
\* log-text, and whenever one of them succeeds for the mint the record
\* carries the name and symbol of the first one in that order that does
C20_FirstSuccessWins ==
    decOp \in {"processPending", "validateAndAlert"} =>
        /\ Before(decOutput.called, "extension", "legacy")
        /\ Before(decOutput.called, "extension", "logText")
        /\ Before(decOutput.called, "legacy", "logText")
        /\ ByPriority(decInput.log, decInput.chain) # Null =>
              /\ decOutput.metadata.ok
              /\ decOutput.metadata.name = ByPriority(decInput.log, decInput.chain).name
              /\ decOutput.metadata.symbol = ByPriority(decInput.log, decInput.chain).symbol

\* the entry with insertion number ord in a state of the Map
EntryOf(q, ord) == q[CHOOSE i \in 1..Len(q) : q[i].ord = ord]
OrdsOf(q) == {q[i].ord : i \in 1..Len(q)}

\* C24: a step increments the attempts of a queued entry exactly when it
\* issues a getTransaction call for it; an entry skipped because its backoff
\* has not elapsed keeps its attempts
C24_AttemptsCountFetches ==
    [][\A ord \in OrdsOf(pendingTransactions) \cap OrdsOf(pendingTransactions') :
          LET before == EntryOf(pendingTransactions, ord)
              after == EntryOf(pendingTransactions', ord)
          IN (before.signature = after.signature /\ before.firstSeen = after.firstSeen)
                => after.attempts - before.attempts = after.fetches - before.fetches]_vars

\* the getTransaction calls for a signature that have not returned yet
Outstanding(s) == {t \in DOMAIN ticks : ticks[t].st = "fetch" /\ ticks[t].sig = s}

\* C25: at most one getTransaction call per signature is outstanding at any
\* time, and the callback is invoked at most once per PendingTransaction
C25_SingleFetchSingleCallback ==
    \A s \in Sigs :
        /\ Cardinality(Outstanding(s)) <= 1
        /\ invoked[s] <= created[s]

\* a field that is present and not the empty string
NonEmpty(field) == ~field.undefined /\ field.str # <<>>
Usable(metadata) == metadata.ok /\ NonEmpty(metadata.name) /\ NonEmpty(metadata.symbol)

\* C21: a record handed to the callback has a non-empty name and a
\* non-empty symbol
C21_EmittedHasNameAndSymbol ==
    (decOp = "emission" /\ decOutput.callback) => Usable(decOutput.metadata)

\* C22: whichever producer of metadata handled a (name, symbol) pair, the
\* pair is rejected when name or symbol is empty, holds a denylisted
\* substring, or consists only of CJK / Cyrillic characters, and the three
\* producers accept or reject the same pairs.
Denylisted(str) ==
    LET lower == ToLowerCase(Trim(str))
    IN (\E word \in blacklistWords : Includes(lower, word)) \/ lower = Coin \/ CoinWord(lower)
MustReject(str) == str = <<>> \/ Denylisted(str) \/ cjkCyrillicRegex(str)
C22_UniformPostFilter ==
    decOp = "postFilter" =>
        /\ decOutput.logText = decOutput.transaction
        /\ decOutput.transaction = decOutput.onChain
        /\ (MustReject(decInput.name) \/ MustReject(decInput.symbol)) => ~decOutput.onChain

\* C23: as long as stop() has not been called, every end of a connection
\* (a failed first attempt included) schedules exactly one reconnection
\* timer of 5000 ms, no connection is attempted before the timer has run
\* down, and a closed connection is always followed by a new attempt.
ClosesNow == ws # "closed" /\ ws' = "closed"
ConnectsAgain == ws = "closed" /\ ws' = "connecting"
C27_WaitingRoomDrains == (lifeRoom > 0) ~> (lifeRoom = 0)

\* C26: an account read holds at most one slot of the limiter, and a read
\* whose request waits for a slot never waits while every slot is held by
\* reads that themselves wait for a slot (a wait that only the timeout of
\* the reads can end).
SlotsHeld(f) ==
    (IF accountFetch[f].outer = "running" THEN 1 ELSE 0)
    + (IF accountFetch[f].inner = "sent" THEN 1 ELSE 0)
Blocked(f) == accountFetch[f].outer = "running" /\ accountFetch[f].inner = "slotWait"
CircularWait ==
    /\ \E f \in AccountFetches : Blocked(f)
    /\ \A f \in AccountFetches : SlotsHeld(f) > 0 => Blocked(f)
C26_NoSelfBlockingOnSlots ==
    /\ \A f \in AccountFetches : SlotsHeld(f) <= 1
    /\ ~CircularWait

\* C28: when getTransaction returns nothing (timeout, network error, not
\* indexed yet), the PendingTransaction stays in the queue with the same
\* signature and firstSeen, and the callback is not invoked at that return.
Kept(s) ==
    \A i \in 1..Len(pendingTransactions) :
        pendingTransactions[i].signature = s =>
            \E j \in 1..Len(pendingTransactions') :
                /\ pendingTransactions'[j].signature = s
                /\ pendingTransactions'[j].firstSeen = pendingTransactions[i].firstSeen
                /\ pendingTransactions'[j].ord = pendingTransactions[i].ord
ReturnsNothing(t) == FetchReturn(t, "none")
C28_TransientFailureKeepsEntry ==
    [][\A t \in DOMAIN ticks :
          ReturnsNothing(t) => Kept(ticks[t].sig) /\ invoked' = invoked]_vars
\* an entry that was fetched is still queued, nothing was emitted for it
\* and no call is in progress
C28_Witness ==
    /\ \A t \in DOMAIN ticks : ticks[t].st = "free"
    /\ \E i \in 1..Len(pendingTransactions) :
           /\ pendingTransactions[i].fetches >= 1
           /\ invoked[pendingTransactions[i].signature] = 0

\* C29: a PendingTransaction whose transaction is found with meta.err is
\* removed at that return, is never fetched again, and the callback is
\* never invoked for it.
StartsFetch(t) == ticks'[t].st = "fetch" /\ ticks'[t] # ticks[t]
ReturnsErr(t) == FetchReturn(t, "err")
C29_FailedIsPermanent ==
    /\ [](\A s \in Sigs : failed[s] # "no" =>
             invoked[s] = 0 /\ ~MapHas(pendingTransactions, s))
    /\ [][\A t \in DOMAIN ticks : StartsFetch(t) => failed'[ticks'[t].sig] = "no"]_vars
    /\ [][\A t \in DOMAIN ticks :
             ReturnsErr(t) => ~MapHas(pendingTransactions', ticks[t].sig)]_vars

\* C29 (amended): ... as long as the dedupe set, which held the signature
\* when the error was found, has not been cleared since: the entry is
\* removed at that return and no fetch is started for the signature; the
\* callback is never invoked for it.
C29_FailedIsPermanentUntilClear ==
    /\ [](\A s \in Sigs : failed[s] # "no" => invoked[s] = 0)
    /\ [](\A s \in Sigs : failed[s] = "sinceClear" => ~MapHas(pendingTransactions, s))
    /\ [][\A t \in DOMAIN ticks :
             StartsFetch(t) => failed'[ticks'[t].sig] # "sinceClear"]_vars
    /\ [][\A t \in DOMAIN ticks :
             ReturnsErr(t) => ~MapHas(pendingTransactions', ticks[t].sig)]_vars
\* after the error the signature was notified again and ignored
C29_Witness ==
    \E s \in Sigs : failed[s] = "sinceClear" /\ notifiedSinceClear[s] >= 2

\* C30: when a getTransaction call is answered HTTP 429, backoff() is
\* called exactly once on the limiter (which is paused for 2000 ms plus
\* jitter, its tokens emptied), the PendingTransaction stays queued, the
\* callback is not invoked and the run of the tick goes on as after any
\* null result; no other step of the monitor calls backoff().
Answered429 == \E t \in DOMAIN ticks : FetchThrottled(t)
PausedNow ==
    /\ isPaused'
    /\ pauseUntil' >= now + BASE_BACKOFF
    /\ pauseUntil' < now + BASE_BACKOFF + JITTER_MAX
    /\ tokens' = 0
    /\ lastRefill' = now
C30_ThrottledBacksOffOnce ==
    /\ [][\A t \in DOMAIN ticks :
             FetchThrottled(t) =>
                 /\ backoffCalls' = backoffCalls + 1
                 /\ PausedNow
                 /\ Kept(ticks[t].sig)
                 /\ invoked' = invoked
                 /\ ticks'[t].st \in {"free", "fetch"}]_vars
    /\ [][~Answered429 => backoffCalls' = backoffCalls /\ isPaused' = isPaused]_vars
\* a 429 was answered, the limiter is paused and the entry is still queued
C30_Witness ==
    /\ backoffCalls >= 1
    /\ isPaused
    /\ \E i \in 1..Len(pendingTransactions) : pendingTransactions[i].fetches >= 1

\* C31: a candidate that entered the quarantine with a non-empty name and
\* symbol leaves it with a non-empty name and symbol, whatever the decoders
\* of the on-chain metadata return at the exit.
C31_ExitKeepsNameAndSymbol ==
    (decOp = "validateAndAlert" /\ Usable(decInput.log)) => Usable(decOutput.metadata)

\* C37: at the quarantine exit the decoders of the on-chain metadata are
\* called only for a candidate whose name or symbol is missing.
C37_MetadataRefetchedOnlyIfThin ==
    (decOp = "validateAndAlert" /\ Usable(decInput.log)) => decOutput.called = <<>>

\* C32: whenever the retrieval queue is non-empty and the stream is
\* connected, the tick timer is active, also after stop() was followed by a
\* reconnection of the same monitor.
C32_QueueHasActiveTimer ==
    (lifePending > 0 /\ ws = "open") => lifeInterval = "running"

\* C33: at any time at most maxBatchSize candidates are being validated,
\* also when a quarantine tick fires while the batch of an earlier tick is
\* still awaited.
RECURSIVE BeingValidated(_)
BeingValidated(running) ==
    IF running = {} THEN 0
    ELSE LET t == CHOOSE x \in running : TRUE
         IN qTicks[t].batch + BeingValidated(running \ {t})
C33_AtMostOneBatchValidated ==
    BeingValidated({t \in QTickIds : qTicks[t].st = "await"}) <= maxBatchSize

\* C34: a quarantine tick drops entries without emitting them only when the
\* waiting room holds more than maxWaitingRoomSize entries as the tick starts,
\* and then it drops exactly the entries older than garbageCollectAge, their
\* dwell time elapsed or not; with the room within its capacity a tick drops
\* nothing.  An entry the tick hands to validation or keeps for putting
\* back is not dropped.
DroppedBy(t) ==
    IdsOf(waitingRoom) \ (IdsOf(waitingRoom') \cup {r.id : r \in emittedNow'}
                                              \cup IdsOf(qTicks'[t].remaining))
OverAge == {waitingRoom[i].id : i \in {j \in 1..Len(waitingRoom) :
                                        now - waitingRoom[j].firstSeen > garbageCollectAge}}
C34_CollectsOverAgeOnlyWhenOverCapacity ==
    [][\A t \in QTickIds :
          QTick(t) => DroppedBy(t) = IF Len(waitingRoom) > maxWaitingRoomSize
                                     THEN OverAge ELSE {}]_vars
C34_Witness == \E i \in collected : emitted[i] = 0 /\ i \notin replaced \cup overwritten

\* the capacity threshold of the retrieval queue (20 in part_002:841), for an
\* instance in which NumSigs creations exceed it
QueueCapacity == 1

\* C35: the retrieval queue never holds more entries than its capacity
\* threshold: a creation notified to a full queue is enqueued and the oldest
\* entries are evicted for it.
C35_QueueWithinCapacity == Len(pendingTransactions) <= QueueCapacity

\* C36: one fetchBondingCurveReserves call issues at most 3 getAccountInfo
\* attempts, each but the last followed by a pause of 500 ms, none after the
\* first that returns account data, and the commitment alternates from one
\* attempt to the next: processed, confirmed, processed.
Alternating(i) == IF i % 2 = 1 THEN "processed" ELSE "confirmed"
C36_ReservesRetryProtocol ==
    (decOp = "fetchReserves" /\ decInput.mintValid) =>
        LET calls == decOutput.calls
        IN /\ Len(calls) \in 1..3
           /\ \A i \in 1..Len(calls) :
                 /\ decInput.outcomes[i].kind = "data" => i = Len(calls)
                 /\ i < Len(calls) => calls[i].sleep = 500
                 /\ calls[i].commitment = Alternating(i)

\* C40: right after a notification with signature s has been accepted (not
\* discarded as a duplicate), s is a member of the dedupe set, whichever
\* accepted signature it is, the one whose insertion makes the set exceed its
\* cap included.
Accepts(s) == Notify(s) /\ ~AlreadyProcessed(processedSignatures, s)
C40_AcceptedIsRemembered ==
    [][\A s \in Sigs : Accepts(s) => AlreadyProcessed(processedSignatures', s)]_vars

\* C39: every execute() call that has to wait is admitted in the end, given
\* that every admitted function settles and that no call is reported as
\* throttled; and with no call admitted and unsettled, currentConcurrent is 0.
C39_EveryCallAdmitted ==
    /\ \A c \in Callers : Waiting(c) ~> (pc[c] = "running")
    /\ []((\A c \in Callers : pc[c] # "running") => currentConcurrent = 0)

====
